---- MODULE Spec2Model ----
(***************************************************************************)
(* A model of the interaction toolkit of djs-forge: the InteractionRouter  *)
(* (pattern compilation, ordered dispatch, once-routes, fallback), the     *)
(* CooldownManager (time-keyed expiry store), the Paginator (cursor,       *)
(* navigation row, collector), ConfirmationManager.ask (one promise per    *)
(* prompt, settled by a click or by the timeout) and                       *)
(* WebhookManager.sendBatch (embeds sent in chunks, one request at a time). *)
(*                                                                         *)
(* Strings are sequences of one-character strings.  A regular expression   *)
(* is a sequence of items (see ParseRegExp); String.prototype.match is     *)
(* modelled by a leftmost, greedy, backtracking matcher (RegExpExec).      *)
(***************************************************************************)
EXTENDS Integers, Sequences, FiniteSets, Bags, TLC

VARIABLES
  _routes,     \* InteractionRouter._routes: sequence of route objects
  _fallback,   \* InteractionRouter._fallback: a handler or Null
  inflight,    \* bag of the handle() calls suspended on `await handler(...)`
  nextOid,     \* identity of the next route object pushed by _register
  fired,       \* per route object: its once flag, and the invocations of its handler
  last,        \* the most recent router call: its inputs and its outcome
  _store,      \* CooldownManager._store: key -> expiry timestamp
  now,         \* the clock read by Date.now()
  lastCd,      \* the most recent cooldown call: its inputs and its outcome
  _sweepInterval, \* CooldownManager._sweepInterval: the auto-sweep timer
  lastVia,     \* how the most recent cooldown call was made: directly, through
               \* a scope wrapper, or by the auto-sweep timer
  _pages,      \* Paginator._pages.length (0 before a Paginator is constructed)
  _current,    \* Paginator._current
  _message,    \* Paginator._message: the message sent, and what it shows
  _collector,  \* Paginator._collector: "null", "active" or "ended"
  collecting,  \* 'collect' handlers suspended on btn.deferUpdate(): their customIds
  lastPg,      \* the most recent Paginator call or event: its inputs and outcome
  _showStop,   \* Paginator._showStop
  _userId,     \* Paginator._userId: the user allowed to navigate, or NoUser
  timeLeft,    \* what is left of the collector's `time` option
  endReason,   \* the collector's endReason ("" while it has not ended)
  disableEdits, \* how many times _disable() edited the message
  asks,        \* per call of ConfirmationManager.ask: its options, collector,
               \* handlers, message and promise
  lastAsk,     \* the most recent event of an ask() session
  byDelivery,  \* the cursor the accepted clicks give when applied in the order
               \* they were delivered in
  others,      \* collectors of the Paginator still running that _collector no
               \* longer refers to
  batch        \* a call of WebhookManager.sendBatch: its arguments, its locals
               \* (chunks, ci, results) and the payloads it has passed to send()

vars == <<_routes, _fallback, inflight, nextOid, fired, last, _store, now, lastCd,
          _sweepInterval, lastVia, _pages, _current, _message, _collector, collecting,
          lastPg, _showStop, _userId, timeLeft, endReason, disableEdits, asks, lastAsk,
          byDelivery, others, batch>>

routerVars == <<_routes, _fallback, inflight, nextOid, fired, last>>
cooldownVars == <<_store, now, lastCd, _sweepInterval, lastVia>>
paginatorVars == <<_pages, _current, _message, _collector, collecting, lastPg,
                   _showStop, _userId, timeLeft, endReason, disableEdits>>

\* What a call to one object leaves alone: the other objects.
confirmationVars == <<asks, lastAsk>>
sideVars == <<byDelivery, others>>
webhookVars == <<batch>>
nonRouterVars == <<cooldownVars, paginatorVars, confirmationVars, sideVars, webhookVars>>
nonCooldownVars == <<routerVars, paginatorVars, confirmationVars, sideVars, webhookVars>>
nonPaginatorVars == <<routerVars, cooldownVars, confirmationVars, sideVars, webhookVars>>
nonConfirmationVars == <<routerVars, cooldownVars, paginatorVars, sideVars, webhookVars>>
nonWebhookVars == <<routerVars, cooldownVars, paginatorVars, confirmationVars, sideVars>>

-----------------------------------------------------------------------------
(* Bounds *)

MaxPatLen == 3          \* longest string pattern drawn in the matcher spec
MaxIdLen == 3           \* longest customId drawn in the matcher spec
MaxRegistrations == 2   \* on()/once() calls per run of the router spec
MaxInflight == 2        \* handle() calls suspended at the same time
MaxDispatches == 2      \* route handler invocations per run of the router spec
MaxTime == 3            \* the clock stops advancing here
MaxDuration == 2        \* longest cooldown duration drawn
MaxPages == 3           \* most pages a Paginator is constructed with
MaxCollecting == 2      \* 'collect' handlers suspended at the same time
MaxLifetime == 2        \* the collector's `time` option, in ticks
MaxAsks == 2            \* calls of ConfirmationManager.ask
MaxResends == 1         \* send() calls on a Paginator after its first
MaxEmbeds == 21         \* most embeds a payload of sendBatch holds

-----------------------------------------------------------------------------
(* Strings *)

Null == "null"

\* The characters strings are drawn from: a letter, a regex metacharacter,
\* the glob marker and a line terminator.
Chars == {"a", ".", "*", "\n"}

LineTerminators == {"\n", "\r"}

Digits == {"0", "1", "2", "3", "4", "5", "6", "7", "8", "9"}

RECURSIVE StringsOfLen(_)
StringsOfLen(n) ==
  IF n = 0 THEN {<<>>}
  ELSE {<<c>> \o s : c \in Chars, s \in StringsOfLen(n - 1)}

StringsUpTo(n) == UNION {StringsOfLen(k) : k \in 0..n}

RECURSIVE FlatMap(_, _)
\* Concatenation of Op(c) over the characters c of str, left to right.
FlatMap(Op(_), str) ==
  IF str = <<>> THEN <<>>
  ELSE Op(Head(str)) \o FlatMap(Op, Tail(str))

includes(str, c) == \E i \in 1..Len(str) : str[i] = c

-----------------------------------------------------------------------------
(* Pattern compilation: _register's two string.replace calls *)

\* The character class of /[.+?^${}()|[\]\\]/g
MetaChars == {".", "+", "?", "^", "$", "{", "}", "(", ")", "|", "[", "]", "\\"}

\* str.replace(/[.+?^${}()|[\]\\]/g, '\\$&')
EscapeRegExp(str) ==
  LET esc(c) == IF c \in MetaChars THEN <<"\\", c>> ELSE <<c>>
  IN FlatMap(esc, str)

\* str.replace(/\*/g, '(.+)')
ReplaceStars(str) ==
  LET rep(c) == IF c = "*" THEN <<"(", ".", "+", ")">> ELSE <<c>>
  IN FlatMap(rep, str)

\* `^${escaped}$` of the glob branch
GlobSource(pattern) == <<"^">> \o ReplaceStars(EscapeRegExp(pattern)) \o <<"$">>

\* `^${pattern.replace(...)}$` of the exact branch
ExactSource(pattern) == <<"^">> \o EscapeRegExp(pattern) \o <<"$">>

-----------------------------------------------------------------------------
(* new RegExp(source): the source text parsed into items.                  *)
(* An item is [atom, ch, quant, cap, name]:                                *)
(*   atom  "lit" (the character ch), "any" (.), "digit" (\d),              *)
(*         "bol" (^), "eol" ($)                                            *)
(*   quant "one", "plus" (+) or "star" ( * )                               *)
(*   cap   TRUE for a capturing group around the atom; name its name or "" *)
(* Anything else in the source makes the parse fail (SyntaxError, or a     *)
(* construct the model does not cover): the result is SyntaxError.         *)

SyntaxError == <<[atom |-> "error", ch |-> "", quant |-> "one", cap |-> FALSE, name |-> ""]>>

Item(atom, ch) == [atom |-> atom, ch |-> ch, quant |-> "one", cap |-> FALSE, name |-> ""]

IsError(items) == \E i \in 1..Len(items) : items[i].atom = "error"

\* The atom starting at src[i]: [item, next] or next = 0 when there is none.
AtomAt(src, i) ==
  IF i > Len(src) THEN [item |-> Item("error", ""), next |-> 0]
  ELSE IF src[i] = "\\" THEN
    IF i + 1 > Len(src) THEN [item |-> Item("error", ""), next |-> 0]
    ELSE IF src[i + 1] = "d" THEN [item |-> Item("digit", ""), next |-> i + 2]
    ELSE IF src[i + 1] \in MetaChars THEN [item |-> Item("lit", src[i + 1]), next |-> i + 2]
    ELSE [item |-> Item("error", ""), next |-> 0]
  ELSE IF src[i] = "." THEN [item |-> Item("any", ""), next |-> i + 1]
  ELSE IF src[i] = "^" THEN [item |-> Item("bol", ""), next |-> i + 1]
  ELSE IF src[i] = "$" THEN [item |-> Item("eol", ""), next |-> i + 1]
  ELSE IF src[i] \in MetaChars \cup {"*"} THEN [item |-> Item("error", ""), next |-> 0]
  ELSE [item |-> Item("lit", src[i]), next |-> i + 1]

\* An optional quantifier at src[i]: [quant, next].
QuantAt(src, i) ==
  IF i <= Len(src) /\ src[i] = "+" THEN [quant |-> "plus", next |-> i + 1]
  ELSE IF i <= Len(src) /\ src[i] = "*" THEN [quant |-> "star", next |-> i + 1]
  ELSE [quant |-> "one", next |-> i]

Quantifiable(item) == item.atom \in {"lit", "any", "digit"}

RECURSIVE ParseFrom(_, _)
ParseFrom(src, i) ==
  IF i > Len(src) THEN <<>>
  ELSE IF src[i] = "(" THEN
    \* a capturing group around one quantified atom: (.+)
    LET a == AtomAt(src, i + 1)
        q == QuantAt(src, a.next)
    IN IF a.next = 0 \/ ~Quantifiable(a.item) \/ q.next > Len(src) \/ src[q.next] # ")"
       THEN SyntaxError
       ELSE <<[a.item EXCEPT !.quant = q.quant, !.cap = TRUE]>> \o ParseFrom(src, q.next + 1)
  ELSE
    LET a == AtomAt(src, i)
        q == QuantAt(src, a.next)
    IN IF a.next = 0 \/ (q.quant # "one" /\ ~Quantifiable(a.item))
       THEN SyntaxError
       ELSE <<[a.item EXCEPT !.quant = q.quant]>> \o ParseFrom(src, q.next)

ParseRegExp(src) ==
  LET items == ParseFrom(src, 1)
  IN IF IsError(items) THEN SyntaxError ELSE items

-----------------------------------------------------------------------------
(* String.prototype.match(regexp) for a regexp without flags *)

AtomMatches(item, c) ==
  CASE item.atom = "lit" -> c = item.ch
    [] item.atom = "any" -> c \notin LineTerminators
    [] item.atom = "digit" -> c \in Digits
    [] OTHER -> FALSE

NoMatch == [ok |-> FALSE, caps |-> <<>>, names |-> <<>>]

RECURSIVE RunLength(_, _, _)
\* The longest run of characters from s[pos] on that the atom matches.
RunLength(item, s, pos) ==
  IF pos <= Len(s) /\ AtomMatches(item, s[pos]) THEN 1 + RunLength(item, s, pos + 1) ELSE 0

RECURSIVE MatchAt(_, _, _, _)
RECURSIVE TryLength(_, _, _, _, _, _)

\* The backtracking match of items[k..] against s from position pos.
MatchAt(items, k, s, pos) ==
  IF k > Len(items) THEN [ok |-> TRUE, caps |-> <<>>, names |-> <<>>]
  ELSE
    LET it == items[k] IN
    CASE it.atom = "bol" -> IF pos = 1 THEN MatchAt(items, k + 1, s, pos) ELSE NoMatch
      [] it.atom = "eol" -> IF pos = Len(s) + 1 THEN MatchAt(items, k + 1, s, pos) ELSE NoMatch
      [] it.atom = "error" -> NoMatch
      [] OTHER ->
        CASE it.quant = "plus" -> TryLength(items, k, s, pos, RunLength(it, s, pos), 1)
          [] it.quant = "star" -> TryLength(items, k, s, pos, RunLength(it, s, pos), 0)
          [] OTHER ->
            IF pos <= Len(s) /\ AtomMatches(it, s[pos])
            THEN TryLength(items, k, s, pos, 1, 1)
            ELSE NoMatch

\* Item k takes n characters, the longest length first (greedy), down to min,
\* until the rest of the items match what follows.
TryLength(items, k, s, pos, n, min) ==
  IF n < min THEN NoMatch
  ELSE
    LET rest == MatchAt(items, k + 1, s, pos + n) IN
    IF rest.ok
    THEN [ok |-> TRUE,
          caps |-> (IF items[k].cap THEN <<SubSeq(s, pos, pos + n - 1)>> ELSE <<>>) \o rest.caps,
          names |-> (IF items[k].cap THEN <<items[k].name>> ELSE <<>>) \o rest.names]
    ELSE TryLength(items, k, s, pos, n - 1, min)

RECURSIVE ExecFrom(_, _, _)
ExecFrom(items, s, p) ==
  IF p > Len(s) + 1 THEN NoMatch
  ELSE LET m == MatchAt(items, 1, s, p)
       IN IF m.ok THEN m ELSE ExecFrom(items, s, p + 1)

\* s.match(re): the match at the leftmost start position, or NoMatch (null).
RegExpExec(items, s) == ExecFrom(items, s, 1)

-----------------------------------------------------------------------------
(* Values passed to the router *)

\* A pattern argument: a string, a RegExp object (identified by id), or a
\* value that is neither (a number).
StrPat(s) == [type |-> "string", str |-> s, id |-> 0]
RegExpPat(id) == [type |-> "regexp", str |-> <<>>, id |-> id]
NumberPat == [type |-> "number", str |-> <<>>, id |-> 0]

\* The RegExp objects callers hold.  Objects 1 and 2 are two evaluations of
\* the literal /^a(?<userId>\d+)$/ ; object 3 is /(?<kind>a)(?<userId>\d)/ ,
\* which is not anchored; object 4 is /^a/ , without groups.
RegExpIds == {1, 2, 3, 4}

RegExpItems(id) ==
  CASE id \in {1, 2} ->
         <<Item("bol", ""), Item("lit", "a"),
           [atom |-> "digit", ch |-> "", quant |-> "plus", cap |-> TRUE, name |-> "userId"],
           Item("eol", "")>>
    [] id = 3 ->
         <<[atom |-> "lit", ch |-> "a", quant |-> "one", cap |-> TRUE, name |-> "kind"],
           [atom |-> "digit", ch |-> "", quant |-> "one", cap |-> TRUE, name |-> "userId"]>>
    [] OTHER -> <<Item("bol", ""), Item("lit", "a")>>

\* Handlers: a route callback, a fallback callback, and a value that is not
\* a function.  Route objects are told apart by their oid.
RouteHandlers == {"h1"}
FallbackHandler == "fb"
NotAFunction == "notfn"
IsFunction(h) == h \in RouteHandlers \cup {FallbackHandler}

\* An interaction: its customId, when it has one.
Interaction(hasId, id) == [hasCustomId |-> hasId, customId |-> id]

\* The guard of handle testing only for a missing customId.
NoCustomIdOnlyMissing(interaction) == ~interaction.hasCustomId

\* !interaction.customId
NoCustomId(interaction) == ~interaction.hasCustomId \/ interaction.customId = <<>>

\* p === q for pattern values: strings by value, objects by identity
StrictEquals(p, q) == p = q

-----------------------------------------------------------------------------
(* InteractionRouter._register *)

\* Compile with the exact branch's escaping left out.
CompileNoEscape(pattern) ==
  IF pattern.type = "regexp" THEN RegExpItems(pattern.id)
  ELSE IF includes(pattern.str, "*") THEN ParseRegExp(GlobSource(pattern.str))
  ELSE ParseRegExp(<<"^">> \o pattern.str \o <<"$">>)

\* Compile with each '*' turned into (.*) instead of (.+).
CompileStarOptional(pattern) ==
  LET rep(c) == IF c = "*" THEN <<"(", ".", "*", ")">> ELSE <<c>>
  IN IF pattern.type = "regexp" THEN RegExpItems(pattern.id)
     ELSE IF includes(pattern.str, "*")
       THEN ParseRegExp(<<"^">> \o FlatMap(rep, EscapeRegExp(pattern.str)) \o <<"$">>)
     ELSE ParseRegExp(ExactSource(pattern.str))

\* The `compiled` RegExp of a string or RegExp pattern.
Compile(pattern) ==
  IF pattern.type = "regexp" THEN RegExpItems(pattern.id)
  ELSE IF includes(pattern.str, "*") THEN ParseRegExp(GlobSource(pattern.str))
  ELSE ParseRegExp(ExactSource(pattern.str))

\* _register without its argument checks.
RegisterThrowsNever(pattern, handler) == ""

\* The error _register throws for these arguments, "" when it throws none.
RegisterThrows(pattern, handler) ==
  IF ~IsFunction(handler) THEN "ROUTER_INVALID_PATTERN"
  ELSE IF pattern.type \notin {"regexp", "string"} THEN "ROUTER_INVALID_PATTERN"
  ELSE IF IsError(Compile(pattern)) THEN "SyntaxError"
  ELSE ""

\* The route object _register pushes.
Route(pattern, handler, once, oid) ==
  [pattern |-> pattern, compiled |-> Compile(pattern), handler |-> handler,
   once |-> once, oid |-> oid]

\* The record of a router call, before its outcome is filled in.
Call(op) ==
  [op |-> op, pattern |-> NumberPat, handler |-> Null, interaction |-> Interaction(FALSE, <<>>),
   threw |-> "", result |-> "none", invoked |-> <<>>, raised |-> ""]

_register(pattern, handler, once, op) ==
  LET err == RegisterThrows(pattern, handler) IN
  /\ IF err # ""
     THEN /\ UNCHANGED <<_routes, nextOid, fired>>
          /\ last' = [Call(op) EXCEPT !.pattern = pattern, !.handler = handler, !.threw = err]
     ELSE /\ _routes' = Append(_routes, Route(pattern, handler, once, nextOid))
          /\ nextOid' = nextOid + 1
          /\ fired' = [fired EXCEPT ![nextOid].once = once]
          /\ last' = [Call(op) EXCEPT !.pattern = pattern, !.handler = handler]
  /\ UNCHANGED <<_fallback, inflight>>

on(pattern, handler) == _register(pattern, handler, FALSE, "on")

once(pattern, handler) == _register(pattern, handler, TRUE, "once")

fallback(handler) ==
  /\ _fallback' = handler
  /\ last' = [Call("fallback") EXCEPT !.handler = handler]
  /\ UNCHANGED <<_routes, inflight, nextOid, fired>>

\* The filter of off() comparing RegExp patterns by their source text.
FilterBySource(rs, pattern) ==
  LET same(p, q) == /\ p.type = q.type
                    /\ p.str = q.str
                    /\ (p.type = "regexp" => RegExpItems(p.id) = RegExpItems(q.id))
  IN SelectSeq(rs, LAMBDA r : ~same(r.pattern, pattern))

\* this._routes.filter(r => r.pattern !== pattern)
FilterRoutes(rs, pattern) == SelectSeq(rs, LAMBDA r : ~StrictEquals(r.pattern, pattern))

off(pattern) ==
  /\ _routes' = FilterRoutes(_routes, pattern)
  /\ last' = [Call("off") EXCEPT !.pattern = pattern]
  /\ UNCHANGED <<_fallback, inflight, nextOid, fired>>

-----------------------------------------------------------------------------
(* InteractionRouter.handle *)

EmptyParams == [n \in {} |-> <<>>]

\* const params = match.groups ?? {};
\* if (match[1] !== undefined && !params.wildcard) params.wildcard = match[1];
ParamsOf(m) ==
  LET named == {i \in 1..Len(m.names) : m.names[i] # ""}
      groups == [n \in {m.names[i] : i \in named} |->
                   m.caps[CHOOSE i \in named : m.names[i] = n]]
      truthyWildcard == "wildcard" \in DOMAIN groups /\ groups["wildcard"] # <<>>
  IN IF Len(m.caps) >= 1 /\ ~truthyWildcard
     THEN [n \in DOMAIN groups \cup {"wildcard"} |->
             IF n = "wildcard" THEN m.caps[1] ELSE groups[n]]
     ELSE groups

RECURSIVE LastMatch(_, _, _)
\* The loop of handle run from the end of the route list.
LastMatch(rs, i, customId) ==
  IF i > Len(rs) THEN 0
  ELSE LET later == LastMatch(rs, i + 1, customId)
       IN IF later # 0 THEN later
          ELSE IF RegExpExec(rs[i].compiled, customId).ok THEN i ELSE 0

RECURSIVE FirstMatch(_, _, _)
\* The for loop of handle: the index of the first route from i on whose
\* compiled RegExp matches the customId, 0 when the loop runs off the end.
FirstMatch(rs, i, customId) ==
  IF i > Len(rs) THEN 0
  ELSE IF RegExpExec(rs[i].compiled, customId).ok THEN i
  ELSE FirstMatch(rs, i + 1, customId)

RemoveAt(rs, i) == SubSeq(rs, 1, i - 1) \o SubSeq(rs, i + 1, Len(rs))

\* handle without the removal of a once-route.
SpliceNever(rs, i) == rs

\* if (route.once) this._routes.splice(i, 1);
SpliceIfOnce(rs, i) == IF rs[i].once THEN RemoveAt(rs, i) ELSE rs

RECURSIVE SumTo(_, _)
SumTo(f, n) == IF n = 0 THEN 0 ELSE f[n].count + SumTo(f, n - 1)

\* Route handler invocations so far.
TotalFired == SumTo(fired, MaxRegistrations)

Invocation(kind, oid, handler, params) ==
  [kind |-> kind, oid |-> oid, handler |-> handler, params |-> params]

\* The handler calls one handle(interaction) makes, given the index i the
\* loop stopped at (0: no route matched).
Invoked(interaction, i) ==
  IF NoCustomId(interaction) THEN <<>>
  ELSE IF i # 0
  THEN <<Invocation("route", _routes[i].oid, _routes[i].handler,
                    ParamsOf(RegExpExec(_routes[i].compiled, interaction.customId)))>>
  ELSE IF _fallback # Null THEN <<Invocation("fallback", 0, _fallback, EmptyParams)>>
  ELSE <<>>

\* The synchronous part of handle(interaction): up to the first await.
handle(interaction) ==
  \E i \in {IF NoCustomId(interaction) THEN 0
            ELSE FirstMatch(_routes, 1, interaction.customId)} :
    \E invoked \in {Invoked(interaction, i)} :
      /\ _routes' = IF i = 0 THEN _routes ELSE SpliceIfOnce(_routes, i)
      /\ fired' = IF i = 0 THEN fired ELSE [fired EXCEPT ![_routes[i].oid].count = @ + 1]
      /\ inflight' = inflight (+) SetToBag({[interaction |-> interaction, invoked |-> invoked[k]] :
                                              k \in 1..Len(invoked)})
      /\ last' = [Call("handle") EXCEPT !.interaction = interaction, !.invoked = invoked,
                                        !.result = IF invoked = <<>> THEN "false" ELSE "pending"]
      /\ UNCHANGED <<_fallback, nextOid>>

\* handle returning true after the fallback too.
ReturnsAlwaysTrue(kind) == "true"

\* What handle returns once the awaited call fulfils: true after a route
\* handler, false after the fallback.
Returns(kind) == IF kind = "route" THEN "true" ELSE "false"

\* The awaited handler call of the suspended handle() call c fulfils.
HandlerFulfils(c) ==
  /\ BagIn(c, inflight)
  /\ inflight' = inflight (-) SetToBag({c})
  /\ last' = [Call("settle") EXCEPT !.interaction = c.interaction,
                                    !.invoked = <<c.invoked>>,
                                    !.result = Returns(c.invoked.kind)]
  /\ UNCHANGED <<_routes, _fallback, nextOid, fired>>

\* handle rejecting with an error of its own.
RejectionWrapped(error) == "Error"

\* What handle() rejects with when the awaited call rejects with `error`:
\* there is no try/catch around the await.
Rejection(error) == error

\* The awaited handler call throws or rejects with `error`: handle()
\* rejects.
HandlerRejects(c, error) ==
  /\ BagIn(c, inflight)
  /\ inflight' = inflight (-) SetToBag({c})
  /\ last' = [Call("settle") EXCEPT !.interaction = c.interaction,
                                    !.invoked = <<c.invoked>>,
                                    !.raised = error,
                                    !.threw = Rejection(error),
                                    !.result = "rejected"]
  /\ UNCHANGED <<_routes, _fallback, nextOid, fired>>

-----------------------------------------------------------------------------
(* CooldownManager *)

\* options.keyPrefix ?? 'forge:cd:'
KeyPrefix == <<"f", "o", "r", "g", "e", ":", "c", "d", ":">>

\* `${this._prefix}${command}:${entityId}`
_key(command, entityId) == KeyPrefix \o command \o <<":">> \o entityId

\* What Map.get returns for a key the map does not hold (undefined).
Absent == -1

_get(key) == IF key \in DOMAIN _store THEN _store[key] ELSE Absent

_set(key, value) == [k \in DOMAIN _store \cup {key} |-> IF k = key THEN value ELSE _store[k]]

_delete(key) == [k \in DOMAIN _store \ {key} |-> _store[k]]

\* The test of check() with now > expiry for now >= expiry.
ExpiredAfterExpiry(expiry) == expiry = Absent \/ expiry = 0 \/ now > expiry

\* !expiry || now >= expiry
Expired(expiry) == expiry = Absent \/ expiry = 0 \/ now >= expiry

\* check() computing remaining as expiry - now for every entry present.
CheckResultUnclamped(command, entityId) ==
  LET expiry == _get(_key(command, entityId))
  IN IF expiry = Absent
     THEN [onCooldown |-> FALSE, remaining |-> 0, expiry |-> Absent]
     ELSE [onCooldown |-> expiry > now, remaining |-> expiry - now, expiry |-> expiry]

\* The CooldownResult of check(command, entityId); remainingText is left out.
CheckResult(command, entityId) ==
  LET expiry == _get(_key(command, entityId))
  IN IF Expired(expiry)
     THEN [onCooldown |-> FALSE, remaining |-> 0, expiry |-> Absent]
     ELSE [onCooldown |-> TRUE, remaining |-> expiry - now, expiry |-> expiry]

\* The record of a cooldown call, before its outcome is filled in.
CdCall(op, command, entityId, durationMs) ==
  [op |-> op, command |-> command, entityId |-> entityId, durationMs |-> durationMs,
   threw |-> "", returned |-> [onCooldown |-> FALSE, remaining |-> 0, expiry |-> Absent],
   number |-> 0, before |-> Absent]

check(command, entityId) ==
  /\ lastCd' = [CdCall("check", command, entityId, 0) EXCEPT
                  !.returned = CheckResult(command, entityId)]
  /\ UNCHANGED <<_store, now>>

remaining(command, entityId) ==
  /\ lastCd' = [CdCall("remaining", command, entityId, 0) EXCEPT
                  !.number = CheckResult(command, entityId).remaining]
  /\ UNCHANGED <<_store, now>>

\* set() keeping the later of the entry's expiry and the new one.
SetOutcomeKeepLater(command, entityId, durationMs, t) ==
  LET old == _get(_key(command, entityId))
      expiry == IF old > t + durationMs THEN old ELSE t + durationMs
  IN IF durationMs <= 0
     THEN [threw |-> "COOLDOWN_INVALID_DURATION", store |-> _store, expiry |-> 0]
     ELSE [threw |-> "", store |-> _set(_key(command, entityId), expiry), expiry |-> expiry]

\* The body of set() when its Date.now() reads t: the error it throws ("" for
\* none), the store after and the expiry it returns.
SetOutcome(command, entityId, durationMs, t) ==
  IF durationMs <= 0
  THEN [threw |-> "COOLDOWN_INVALID_DURATION", store |-> _store, expiry |-> 0]
  ELSE [threw |-> "", store |-> _set(_key(command, entityId), t + durationMs),
        expiry |-> t + durationMs]

set(command, entityId, durationMs) ==
  \E out \in {SetOutcome(command, entityId, durationMs, now)} :
    /\ _store' = out.store
    /\ lastCd' = [CdCall("set", command, entityId, durationMs) EXCEPT
                    !.threw = out.threw, !.number = out.expiry,
                    !.before = _get(_key(command, entityId))]
    /\ UNCHANGED now

\* The values a second Date.now() of the same call can read: the clock may
\* have moved on since the first.
LaterReads == {t \in {now, now + 1} : t <= MaxTime}

use(command, entityId, durationMs) ==
  \E result \in {CheckResult(command, entityId)} :
    IF result.onCooldown
    THEN /\ lastCd' = [CdCall("use", command, entityId, durationMs) EXCEPT
                         !.threw = "COOLDOWN_ACTIVE", !.number = result.remaining]
         /\ UNCHANGED <<_store, now>>
    ELSE \E t \in LaterReads :
           \E out \in {SetOutcome(command, entityId, durationMs, t)} :
             /\ _store' = out.store
             /\ lastCd' = [CdCall("use", command, entityId, durationMs) EXCEPT
                             !.threw = out.threw]
             /\ now' = IF durationMs <= 0 THEN now ELSE t

reset(command, entityId) ==
  /\ _store' = _delete(_key(command, entityId))
  /\ lastCd' = CdCall("reset", command, entityId, 0)
  /\ UNCHANGED now

\* key.startsWith(prefix)
startsWith(str, prefix) ==
  Len(prefix) <= Len(str) /\ SubSeq(str, 1, Len(prefix)) = prefix

\* resetAll(command): every key that starts with `${this._prefix}${command}:`
\* is deleted.
resetAll(command) ==
  \E prefix \in {KeyPrefix \o command \o <<":">>} :
    /\ _store' = [k \in {j \in DOMAIN _store : ~startsWith(j, prefix)} |-> _store[k]]
    /\ lastCd' = CdCall("resetAll", command, <<>>, 0)
    /\ UNCHANGED now

\* sweep() deleting an entry only once the clock is past its expiry.
sweepPastExpiry ==
  \E dead \in {{k \in DOMAIN _store : now > _store[k]}} :
    /\ _store' = [k \in DOMAIN _store \ dead |-> _store[k]]
    /\ lastCd' = [CdCall("sweep", <<>>, <<>>, 0) EXCEPT !.number = Cardinality(dead)]
    /\ UNCHANGED now

\* sweep() deleting an entry one tick before its expiry.
sweepBeforeExpiry ==
  \E dead \in {{k \in DOMAIN _store : now + 1 >= _store[k]}} :
    /\ _store' = [k \in DOMAIN _store \ dead |-> _store[k]]
    /\ lastCd' = [CdCall("sweep", <<>>, <<>>, 0) EXCEPT !.number = Cardinality(dead)]
    /\ UNCHANGED now

\* sweep(): every entry with now >= expiry is deleted; returns how many.
sweep ==
  \E dead \in {{k \in DOMAIN _store : now >= _store[k]}} :
    /\ _store' = [k \in DOMAIN _store \ dead |-> _store[k]]
    /\ lastCd' = [CdCall("sweep", <<>>, <<>>, 0) EXCEPT !.number = Cardinality(dead)]
    /\ UNCHANGED now

\* Date.now() moves on.
Tick ==
  /\ now' = now + 1
  /\ lastCd' = CdCall("tick", <<>>, <<>>, 0)
  /\ UNCHANGED _store

\* An interaction as the scope wrappers read it: user.id, guildId (null
\* outside a guild) and channelId.
ScopeInteraction(userId, inGuild, guildId, channelId) ==
  [userId |-> userId, inGuild |-> inGuild, guildId |-> guildId, channelId |-> channelId]

\* A call made directly, and one made by the timer.
NoScope == [kind |-> "none", interaction |-> ScopeInteraction(<<>>, FALSE, <<>>, <<>>)]
ByTimer == [kind |-> "timer", interaction |-> ScopeInteraction(<<>>, FALSE, <<>>, <<>>)]

\* A method called directly: it is recorded as such, and the timer is left
\* as it was.
DirectCall ==
  /\ lastVia' = NoScope
  /\ UNCHANGED _sweepInterval

\* destroy(): the timer is cleared and the store emptied.
destroy ==
  /\ _sweepInterval' = "cleared"
  /\ _store' = [k \in {} |-> 0]
  /\ lastCd' = CdCall("destroy", <<>>, <<>>, 0)
  /\ lastVia' = NoScope
  /\ UNCHANGED now

\* The timer's callback running although the timer was cleared.
AutoSweepAfterClear ==
  /\ sweep
  /\ lastVia' = ByTimer
  /\ UNCHANGED _sweepInterval

\* The timer firing without its callback sweeping anything.
AutoSweepIdle ==
  /\ _sweepInterval = "set"
  /\ lastCd' = CdCall("sweep", <<>>, <<>>, 0)
  /\ lastVia' = ByTimer
  /\ UNCHANGED <<_store, now, _sweepInterval>>

\* The callback of setInterval(() => this.sweep(), 60_000), which runs only
\* while the timer is set.
AutoSweep ==
  /\ _sweepInterval = "set"
  /\ sweep
  /\ lastVia' = ByTimer
  /\ UNCHANGED _sweepInterval

\* The scope wrappers passing the bare id, without the scope's name.
ScopeEntityBareId(kind, interaction) ==
  CASE kind = "user" -> interaction.userId
    [] kind = "guild" -> IF interaction.inGuild THEN interaction.guildId ELSE <<"d", "m">>
    [] kind = "channel" -> interaction.channelId
    [] OTHER -> <<"g", "l", "o", "b", "a", "l">>

\* The entityId a scope wrapper passes to use().
ScopeEntity(kind, interaction) ==
  CASE kind = "user" -> <<"u", "s", "e", "r", "_">> \o interaction.userId
    [] kind = "guild" ->
         <<"g", "u", "i", "l", "d", "_">>
           \o (IF interaction.inGuild THEN interaction.guildId ELSE <<"d", "m">>)
    [] kind = "channel" -> <<"c", "h", "a", "n", "n", "e", "l", "_">> \o interaction.channelId
    [] OTHER -> <<"g", "l", "o", "b", "a", "l">>

\* scope.user / scope.guild / scope.channel / scope.global
scope(kind, command, interaction, duration) ==
  /\ use(command, ScopeEntity(kind, interaction), duration)
  /\ lastVia' = [kind |-> kind, interaction |-> interaction]
  /\ UNCHANGED _sweepInterval

\* new CooldownManager({ autoSweep }): the timer is started unless autoSweep
\* is false, and then _sweepInterval stays undefined.
NewCooldownManager(autoSweep) ==
  /\ _store = [k \in {} |-> 0]
  /\ now = 0
  /\ lastCd = CdCall("new", <<>>, <<>>, 0)
  /\ _sweepInterval = IF autoSweep THEN "set" ELSE "none"
  /\ lastVia = NoScope

\* new CooldownManager(): autoSweep is on by default.
CooldownInit == NewCooldownManager(TRUE)

-----------------------------------------------------------------------------
(* Paginator *)

\* The keys of NAV_ID; a click's customId is the NAV_ID value of one of them.
NavIds == {"first", "prev", "next", "last", "stop"}

\* options.startPage when the option is not given.
NoStartPage == -2

\* this._userId when nobody was named (null); users are numbered from 5.
NoUser == 0
PgUsers == {5, 6}

\* No message yet (this._message is null), and a message showing page `page`
\* over the navigation row `row`: for each button of the row, whether it is
\* disabled.
NoMessage == [sent |-> FALSE, page |-> 0, row |-> [id \in {} |-> FALSE]]
Shown(page, row) == [sent |-> TRUE, page |-> page, row |-> row]

\* The record of a Paginator call or event, before its outcome is filled in;
\* `before` is the cursor it found and `after` the goTo call it follows, if
\* it follows one.
NoPgCall ==
  [op |-> "none", customId |-> "", index |-> 0, pages |-> 0, threw |-> "", before |-> 0,
   user |-> NoUser, notice |-> FALSE,
   after |-> [op |-> "none", index |-> 0, threw |-> ""],
   edit |-> "", unhandled |-> ""]
PgCall(op) ==
  [NoPgCall EXCEPT !.op = op,
                   !.after = IF lastPg.op = "goTo"
                             THEN [op |-> "goTo", index |-> lastPg.index,
                                   threw |-> lastPg.threw]
                             ELSE NoPgCall.after]

\* new Paginator(pages, options), pages an array of n payloads.
NewPaginator(n, startPage, showStop, userId) ==
  /\ _pages = 0
  /\ IF n = 0
     THEN /\ lastPg' = [PgCall("new") EXCEPT !.index = startPage,
                                             !.threw = "PAGINATOR_NO_PAGES"]
          /\ UNCHANGED <<_pages, _current, _message, _collector, collecting, _showStop,
                         _userId, timeLeft, endReason, disableEdits>>
     ELSE /\ _pages' = n
          /\ _current' = IF startPage = NoStartPage THEN 0 ELSE startPage
          /\ _showStop' = showStop
          /\ _userId' = userId
          /\ _collector' = "null"
          /\ _message' = NoMessage
          /\ lastPg' = [PgCall("new") EXCEPT !.index = startPage, !.pages = n]
          /\ UNCHANGED <<collecting, timeLeft, endReason, disableEdits>>

\* The navigation row with first and prev disabled on one page only.
BuildRowOnlyOne(current) ==
  [id \in (IF _showStop THEN NavIds ELSE NavIds \ {"stop"}) |->
     CASE id \in {"first", "prev"} -> _pages = 1
       [] id \in {"next", "last"} -> current = _pages - 1 \/ _pages = 1
       [] OTHER -> FALSE]

\* The navigation row of _buildPayload(): isFirst || onlyOne disables first
\* and prev, isLast || onlyOne disables next and last, stop is there when
\* _showStop and is left enabled.
BuildRow(current) ==
  [id \in (IF _showStop THEN NavIds ELSE NavIds \ {"stop"}) |->
     CASE id \in {"first", "prev"} -> current = 0 \/ _pages = 1
       [] id \in {"next", "last"} -> current = _pages - 1 \/ _pages = 1
       [] OTHER -> FALSE]

\* _update(): the message is edited to the payload of the current page.
UpdatedMessage(current) == Shown(current, BuildRow(current))

\* _disable(): the message is edited to the current page with every button
\* of its row disabled.
DisabledMessage(current) == Shown(current, [id \in DOMAIN _message.row |-> TRUE])

\* this._pages[current] is a page: _buildPayload() reads page.components,
\* which throws a TypeError when it is undefined.
PageExists(current) == current \in 0..(_pages - 1)

\* reply(interaction) and send(channel, userId) after their first line: if
\* the payload of the current page can be built, the message is sent with
\* it and _startCollector() creates a collector with the `time` option.
Render(op) ==
  /\ _pages > 0
  /\ ~_message.sent
  /\ IF PageExists(_current)
     THEN /\ _message' = UpdatedMessage(_current)
          /\ _collector' = "active"
          /\ timeLeft' = MaxLifetime
          /\ lastPg' = [PgCall(op) EXCEPT !.before = _current]
     ELSE /\ lastPg' = [PgCall(op) EXCEPT !.before = _current, !.threw = "TypeError"]
          /\ UNCHANGED <<_message, _collector, timeLeft>>
  /\ UNCHANGED <<_pages, _current, collecting, _showStop, endReason, disableEdits>>

\* reply(interaction), interaction.user.id being user: this._userId ??= user
reply(user) ==
  /\ _userId' = IF _userId = NoUser THEN user ELSE _userId
  /\ Render("reply")

\* send(channel, userId): if (userId) this._userId = userId
send(userId) ==
  /\ _userId' = IF userId # NoUser THEN userId ELSE _userId
  /\ Render("send")

\* The index test of goTo with > for >=.
GoToOutOfBoundsPastLength(index) == index < 0 \/ index > _pages

\* index < 0 || index >= this._pages.length
GoToOutOfBounds(index) == index < 0 \/ index >= _pages

\* goTo(index)
goTo(index) ==
  /\ _pages > 0
  /\ IF GoToOutOfBounds(index)
     THEN /\ lastPg' = [PgCall("goTo") EXCEPT !.index = index,
                                              !.threw = "PAGINATOR_INVALID_PAGE"]
          /\ UNCHANGED <<_current, _message>>
     ELSE /\ _current' = index
          /\ IF _message.sent
             THEN /\ _message' = UpdatedMessage(index)
                  /\ lastPg' = [PgCall("goTo") EXCEPT !.index = index]
             ELSE /\ UNCHANGED _message
                  /\ lastPg' = [PgCall("goTo") EXCEPT !.index = index,
                                                      !.threw = "TypeError"]
  /\ UNCHANGED <<_pages, _collector, collecting, _showStop, _userId, timeLeft, endReason,
                 disableEdits>>

\* A rejected edit with no .catch(() => {}) attached.
SwallowedNever(error) == error

\* promise.catch(() => {}): the rejection ends there, "" for no error.
Swallowed(error) == ""

\* What message.edit() rejects with when the edit cannot be applied, the
\* message having been deleted for instance.
EditError(ok) == IF ok THEN "" ELSE "DiscordAPIError"

\* collector.stop(reason) without the test for a collector that has ended.
CollectorStopAgain(reason, ok) ==
  IF _collector # "null"
  THEN /\ _collector' = "ended"
       /\ endReason' = reason
       /\ _message' = IF ok THEN DisabledMessage(_current) ELSE _message
       /\ disableEdits' = disableEdits + 1
  ELSE UNCHANGED <<_collector, _message, endReason, disableEdits>>

\* collector.stop(reason) and the 'end' handler: an active collector ends
\* with that reason and _disable() edits the message, which Discord applies
\* (ok) or not; an ended one stays as it is.
CollectorStop(reason, ok) ==
  IF _collector = "active"
  THEN /\ _collector' = "ended"
       /\ endReason' = reason
       /\ _message' = IF ok THEN DisabledMessage(_current) ELSE _message
       /\ disableEdits' = disableEdits + 1
  ELSE UNCHANGED <<_collector, _message, endReason, disableEdits>>

\* The record of a call or event during which the collector may have ended:
\* what became of the edit of _disable(), and the error that left the 'end'
\* handler, await this._disable().catch(() => {}).
Ending(call, ok) ==
  IF _collector = "active"
  THEN [call EXCEPT !.edit = IF ok THEN "applied" ELSE "failed",
                    !.unhandled = Swallowed(Swallowed(EditError(ok)))]
  ELSE call

\* stop(): this._collector?.stop('manual')
stop ==
  /\ _pages > 0
  /\ \E ok \in BOOLEAN :
       /\ _collector # "active" => ok
       /\ CollectorStop("manual", ok)
       /\ lastPg' = Ending([PgCall("stop") EXCEPT !.before = _current], ok)
  /\ UNCHANGED <<_pages, _current, collecting, _showStop, _userId, timeLeft>>

\* Time passes for an active collector.
PgTick ==
  /\ _collector = "active"
  /\ timeLeft > 0
  /\ timeLeft' = timeLeft - 1
  /\ lastPg' = [PgCall("tick") EXCEPT !.before = _current]
  /\ UNCHANGED <<_pages, _current, _message, _collector, collecting, _showStop, _userId,
                 endReason, disableEdits>>

\* The collector's time runs out.
Timeout ==
  /\ _collector = "active"
  /\ timeLeft = 0
  /\ \E ok \in BOOLEAN :
       /\ CollectorStop("time", ok)
       /\ lastPg' = Ending([PgCall("timeout") EXCEPT !.before = _current], ok)
  /\ UNCHANGED <<_pages, _current, collecting, _showStop, _userId, timeLeft>>

\* The filter with everybody allowed.
AllowedAnyone(user) == TRUE

\* The filter's test of the user: !this._userId || i.user.id === this._userId
Allowed(user) == _userId = NoUser \/ user = _userId

\* A click by `user` on a navigation button reaches the collector.  If the
\* filter accepts it the 'collect' handler starts and suspends on
\* btn.deferUpdate(); if not, that user is sent the private notice and the
\* collector ignores the click.
Collect(user, customId) ==
  /\ _collector = "active"
  /\ customId \in DOMAIN _message.row
  /\ IF Allowed(user)
     THEN /\ collecting' = collecting (+) SetToBag({customId})
          /\ lastPg' = [PgCall("click") EXCEPT !.customId = customId, !.before = _current,
                                               !.user = user]
     ELSE /\ UNCHANGED collecting
          /\ lastPg' = [PgCall("click") EXCEPT !.customId = customId, !.before = _current,
                                               !.user = user, !.notice = TRUE]
  /\ UNCHANGED <<_pages, _current, _message, _collector, _showStop, _userId, timeLeft,
                 endReason, disableEdits>>

\* The switch of the handler with prev and next not clamped.
NavStepUnclamped(customId, current, total) ==
  CASE customId = "first" -> 0
    [] customId = "prev" -> current - 1
    [] customId = "next" -> current + 1
    [] customId = "last" -> total - 1
    [] OTHER -> current

\* The switch of the 'collect' handler: the cursor after a click.
NavStep(customId, current, total) ==
  CASE customId = "first" -> 0
    [] customId = "prev" -> IF current - 1 > 0 THEN current - 1 ELSE 0
    [] customId = "next" -> IF current + 1 < total - 1 THEN current + 1 ELSE total - 1
    [] customId = "last" -> total - 1
    [] OTHER -> current

\* btn.deferUpdate() fulfils and the handler runs on: the stop button ends
\* the collector, any other button moves the cursor and calls _update().
Deferred(customId) ==
  /\ BagIn(customId, collecting)
  /\ collecting' = collecting (-) SetToBag({customId})
  /\ IF customId = "stop"
     THEN \E ok \in BOOLEAN :
            /\ _collector # "active" => ok
            /\ CollectorStop("user", ok)
            /\ lastPg' = Ending([PgCall("collect") EXCEPT !.customId = customId,
                                                          !.before = _current], ok)
            /\ UNCHANGED _current
     ELSE /\ _current' = NavStep(customId, _current, _pages)
          /\ _message' = UpdatedMessage(NavStep(customId, _current, _pages))
          /\ lastPg' = [PgCall("collect") EXCEPT !.customId = customId, !.before = _current]
          /\ UNCHANGED <<_collector, endReason, disableEdits>>
  /\ UNCHANGED <<_pages, _showStop, _userId, timeLeft>>

\* btn.deferUpdate() rejects: the handler ends there.
DeferRejected(customId) ==
  /\ BagIn(customId, collecting)
  /\ collecting' = collecting (-) SetToBag({customId})
  /\ lastPg' = [PgCall("collect") EXCEPT !.customId = customId, !.before = _current,
                                         !.threw = "rejected"]
  /\ UNCHANGED <<_pages, _current, _message, _collector, _showStop, _userId, timeLeft,
                 endReason, disableEdits>>

PaginatorInit ==
  /\ _pages = 0
  /\ _current = 0
  /\ _message = NoMessage
  /\ _collector = "null"
  /\ collecting = EmptyBag
  /\ lastPg = NoPgCall
  /\ _showStop = TRUE
  /\ _userId = NoUser
  /\ timeLeft = 0
  /\ endReason = ""
  /\ disableEdits = 0
  /\ byDelivery = 0
  /\ others = 0

-----------------------------------------------------------------------------
(* ConfirmationManager.ask.  A session is one call of ask(): the message   *)
(* it sent, its collector (time, max: 1, the owner filter), the 'collect'  *)
(* and 'end' handlers and the promise it returned.  Time is counted in ms  *)
(* and passes in steps of a third of the default timeout.                  *)

\* defaults.timeout ?? 30_000, and options.timeout when it is not given.
DefaultTimeout == 30000
NoTimeout == -1
TickMs == DefaultTimeout \div 3

\* A call of ask() that has not been made.
NoAsk ==
  [collector |-> "none", owner |-> NoUser, updateReply |-> TRUE, timeLeft |-> 0,
   endReason |-> "", clicked |-> "", collect |-> "none", end |-> "none",
   promise |-> "pending", settles |-> 0, content |-> "none", components |-> FALSE,
   edits |-> 0, message |-> 0, nonce |-> 0]

\* The record of an event of session s.
AskEvent(op, s) ==
  [op |-> op, s |-> s, user |-> NoUser, button |-> "", notice |-> FALSE,
   timeout |-> NoTimeout]

\* The promise after resolve(value) or reject(error): the first call settles
\* it, a later one changes nothing.
Settle(ask, outcome) ==
  [ask EXCEPT !.promise = IF ask.promise = "pending" THEN outcome ELSE ask.promise,
              !.settles = ask.settles + 1]

\* message.edit({content: text, embeds: [], components: []}).catch(() => {})
\* has completed: ok says whether the edit was applied.
Edited(ask, text, ok) ==
  [ask EXCEPT !.content = IF ok THEN text ELSE ask.content,
              !.components = IF ok THEN FALSE ELSE ask.components,
              !.edits = ask.edits + 1]

\* The sessions after session s has written to its message: the sessions
\* whose collector listens on the same message see what it shows now.
ShareMessage(sessions, s) ==
  [r \in 1..MaxAsks |->
     IF r # s /\ sessions[r].collector # "none" /\ sessions[r].message = sessions[s].message
     THEN [sessions[r] EXCEPT !.content = sessions[s].content,
                              !.components = sessions[s].components]
     ELSE sessions[r]]

\* Another session was rendered on the message of session s.
SharesMessage(s) ==
  \E r \in 1..MaxAsks : r # s /\ asks[r].message = asks[s].message

\* The nonces `${Date.now()}_${Math.random().toString(36).slice(2, 6)}` the
\* s-th call can draw: the clock and the random digits may repeat, so it is
\* one an earlier call drew or a new one.
Nonces(s) == 1..s

\* ask(interaction, options) by user, once the prompt has been sent: the
\* message shows the prompt over the two buttons, the collector runs.  The
\* message is a new one (interaction.reply), or the one an earlier call sent
\* for the same interaction (interaction.editReply), which loses what it
\* showed.
Ask ==
  /\ \E s \in 1..MaxAsks, user \in PgUsers, updateReply \in BOOLEAN,
        timeout \in {NoTimeout, TickMs}, message \in 1..MaxAsks :
       \E nonce \in Nonces(s) :
         /\ asks[s].collector = "none"
         /\ \A r \in 1..(s - 1) : asks[r].collector # "none"
         /\ \/ message = s
            \/ \E r \in 1..(s - 1) : asks[r].message = message /\ asks[r].owner = user
         /\ asks' = ShareMessage(
                       [asks EXCEPT ![s] =
                          [NoAsk EXCEPT !.collector = "active", !.owner = user,
                                        !.updateReply = updateReply,
                                        !.timeLeft = IF timeout = NoTimeout
                                                     THEN DefaultTimeout ELSE timeout,
                                        !.content = "prompt", !.components = TRUE,
                                        !.message = message, !.nonce = nonce]], s)
         /\ lastAsk' = [AskEvent("ask", s) EXCEPT !.user = user, !.timeout = timeout]
  /\ UNCHANGED nonConfirmationVars

\* A handler that does not wait for the edit of the message.
AwaitsEditNever(ask) == FALSE

\* if (opts.updateReply) await message.edit(...)
AwaitsEdit(ask) == ask.updateReply

\* An 'end' handler that rejects whatever the reason.
RejectsOnEndAlways(reason) == TRUE

\* if (reason !== 'limit')
RejectsOnEnd(reason) == reason # "limit"

\* The collector ends with `reason` and the 'end' handler runs: on 'limit'
\* it does nothing; otherwise it asks for the edit and suspends on it
\* (updateReply), or rejects the promise.
End(ask, reason) ==
  IF ~RejectsOnEnd(reason)
  THEN [ask EXCEPT !.collector = "ended", !.endReason = reason, !.end = "done"]
  ELSE IF AwaitsEdit(ask)
  THEN [ask EXCEPT !.collector = "ended", !.endReason = reason, !.end = "editing"]
  ELSE [Settle(ask, "CONFIRMATION_TIMED_OUT")
          EXCEPT !.collector = "ended", !.endReason = reason, !.end = "done"]

\* The filter with everybody taken for the owner.
IsOwnerAnyone(ask, user) == TRUE

\* const isOwner = i.user.id === interaction.user.id
IsOwner(ask, user) == user = ask.owner

\* The collector without max: 1.
ReachedLimitNever(collected) == FALSE

\* max: 1: the collector ends with reason 'limit' once one click is collected.
ReachedLimit(collected) == collected >= 1

\* The filter taking every button for one of its own.
IsOwnButtonAlways(ask, nonce) == TRUE

\* i.customId === yesId || i.customId === noId, for a button identifier
\* made with `nonce`.
IsOwnButton(ask, nonce) == nonce = ask.nonce

\* The collector of `ask` collects a click by user on a button, made with
\* nonce, of `message`: it runs, it was created on that message, and its
\* filter accepts the click.
Collects(ask, message, nonce, user) ==
  /\ ask.collector = "active"
  /\ ask.message = message
  /\ IsOwner(ask, user) /\ IsOwnButton(ask, nonce)

\* A click by `user` on the confirm ("yes") or cancel ("no") button of
\* session s reaches the collectors of its message.  Not the owner: the
\* private notice and nothing else.  A collector that accepts the click
\* collects it: its 'collect' handler starts and suspends on
\* btn.deferUpdate(), and the collector ends with reason 'limit', on which
\* the 'end' handler does nothing.
AskClick ==
  /\ \E s \in 1..MaxAsks, user \in PgUsers, button \in {"yes", "no"} :
       /\ asks[s].collector = "active"
       /\ asks' = [r \in 1..MaxAsks |->
                     IF Collects(asks[r], asks[s].message, asks[s].nonce, user)
                     THEN IF ReachedLimit(1)
                          THEN End([asks[r] EXCEPT !.clicked = button,
                                                   !.collect = "deferring"], "limit")
                          ELSE [asks[r] EXCEPT !.clicked = button, !.collect = "deferring"]
                     ELSE asks[r]]
       /\ lastAsk' = [AskEvent("click", s) EXCEPT !.user = user, !.button = button,
                                                  !.notice = ~IsOwner(asks[s], user)]
  /\ UNCHANGED nonConfirmationVars

\* The handler's answer whatever the button.
ConfirmedAlways(button) == "true"

\* const confirmed = btn.customId === yesId
Confirmed(button) == IF button = "yes" THEN "true" ELSE "false"

\* btn.deferUpdate() fulfils: with updateReply the handler asks for the
\* edit and suspends on it, without it the handler resolves the promise.
AskAcknowledged ==
  /\ \E s \in 1..MaxAsks :
       /\ asks[s].collect = "deferring"
       /\ asks' = [asks EXCEPT ![s] =
                     IF AwaitsEdit(@)
                     THEN [@ EXCEPT !.collect = "editing"]
                     ELSE [Settle(@, Confirmed(@.clicked)) EXCEPT !.collect = "done"]]
       /\ lastAsk' = AskEvent("acknowledged", s)
  /\ UNCHANGED nonConfirmationVars

\* btn.deferUpdate() rejects: the handler ends there.
AskAcknowledgeFails ==
  /\ \E s \in 1..MaxAsks :
       /\ asks[s].collect = "deferring"
       /\ asks' = [asks EXCEPT ![s].collect = "failed"]
       /\ lastAsk' = AskEvent("acknowledgeFails", s)
  /\ UNCHANGED nonConfirmationVars

\* The edit of the 'collect' handler has completed, applied or not: its
\* rejection is caught and the handler resolves the promise (a rejection
\* that got through would end the handler).
AskEdited ==
  /\ \E s \in 1..MaxAsks, ok \in BOOLEAN :
       /\ asks[s].collect = "editing"
       /\ asks' = ShareMessage(
                     [asks EXCEPT ![s] =
                        IF Swallowed(EditError(ok)) = ""
                        THEN [Settle(Edited(@, IF @.clicked = "yes" THEN "confirmedText"
                                               ELSE "cancelledText", ok),
                                     Confirmed(@.clicked))
                                EXCEPT !.collect = "done"]
                        ELSE [Edited(@, "", ok) EXCEPT !.collect = "failed"]], s)
       /\ lastAsk' = AskEvent("edited", s)
  /\ UNCHANGED nonConfirmationVars

\* The time of the collector of session s is up: it ends with reason
\* 'time', and the 'end' handler asks for the edit (updateReply) or rejects
\* the promise.
AskTimeUp ==
  /\ \E s \in 1..MaxAsks :
       /\ asks[s].collector = "active"
       /\ asks[s].timeLeft = 0
       /\ asks' = [asks EXCEPT ![s] = End(@, "time")]
       /\ lastAsk' = AskEvent("timeUp", s)
  /\ UNCHANGED nonConfirmationVars

\* The edit of the 'end' handler has completed, applied or not: its
\* rejection is caught and the handler rejects the promise (a rejection that
\* got through would end the handler).
AskTimedOutEdited ==
  /\ \E s \in 1..MaxAsks, ok \in BOOLEAN :
       /\ asks[s].end = "editing"
       /\ asks' = ShareMessage(
                     [asks EXCEPT ![s] =
                        IF Swallowed(EditError(ok)) = ""
                        THEN [Settle(Edited(@, "timedOutText", ok), "CONFIRMATION_TIMED_OUT")
                                EXCEPT !.end = "done"]
                        ELSE [Edited(@, "", ok) EXCEPT !.end = "failed"]], s)
       /\ lastAsk' = AskEvent("timedOutEdited", s)
  /\ UNCHANGED nonConfirmationVars

\* TickMs pass while a collector runs or a handler is suspended, and no
\* timer is overdue; timeLeft goes on counting down to the instant the
\* session was configured to time out at, whether its collector runs or not.
AskTick ==
  /\ \E s \in 1..MaxAsks :
       /\ asks[s].timeLeft > 0
       /\ \/ asks[s].collector = "active"
          \/ asks[s].collect \in {"deferring", "editing"}
          \/ asks[s].end = "editing"
  /\ \A s \in 1..MaxAsks : asks[s].collector = "active" => asks[s].timeLeft > 0
  /\ asks' = [s \in 1..MaxAsks |->
               [asks[s] EXCEPT !.timeLeft = IF @ > TickMs THEN @ - TickMs ELSE 0]]
  /\ lastAsk' = AskEvent("tick", 0)
  /\ UNCHANGED nonConfirmationVars

ConfirmationInit ==
  /\ asks = [s \in 1..MaxAsks |-> NoAsk]
  /\ lastAsk = AskEvent("none", 0)

-----------------------------------------------------------------------------
(* WebhookManager.sendBatch.  An embed is an EmbedBuilder or its plain     *)
(* JSON; a payload holds embeds and a content, which may be undefined.     *)
(* send() posts the normalised payload and the call waits for the answer   *)
(* before it goes on.                                                      *)

\* for (let i = 0; i < embeds.length; i += 10) ... embeds.slice(i, i + 10)
ChunkSize == 10

Undefined == "undefined"

\* The i-th embed of a payload, built with EmbedBuilder or given as JSON.
Embed(i, builder) == [id |-> i, builder |-> builder]

\* e.toJSON?.() ?? e
ToJSON(e) == [e EXCEPT !.builder = FALSE]

\* _normalise(payload): a copy with every embed as plain JSON.
_normalise(payload) ==
  [payload EXCEPT !.embeds = [i \in 1..Len(payload.embeds) |-> ToJSON(payload.embeds[i])]]

\* slice taking the element at `end` too.
SliceThroughEnd(array, start, end) ==
  SubSeq(array, start + 1, IF end + 1 < Len(array) THEN end + 1 ELSE Len(array))

\* array.slice(start, end), for 0 <= start <= end: the elements at the
\* 0-based indices start .. end - 1 that exist.
Slice(array, start, end) ==
  SubSeq(array, start + 1, IF end < Len(array) THEN end ELSE Len(array))

\* The chunks pushed by the loop from index i on.
RECURSIVE ChunksFrom(_, _)
ChunksFrom(embeds, i) ==
  IF i < Len(embeds)
  THEN <<Slice(embeds, i, i + ChunkSize)>> \o ChunksFrom(embeds, i + ChunkSize)
  ELSE <<>>

\* A call of sendBatch that has not been made.
NoBatch ==
  [state |-> "idle", embeds |-> <<>>, content |-> Undefined, chunks |-> <<>>, ci |-> 0,
   results |-> 0, posted |-> <<>>, threw |-> ""]

\* The payload the loop passes to send() for chunk ci (0-based):
\* { ...payload, embeds: chunks[ci], content: isFirst ? payload.content : undefined }
ChunkPayload(call, ci) ==
  [embeds |-> call.chunks[ci + 1],
   content |-> IF ci = 0 THEN call.content ELSE Undefined]

\* The loop at index ci: past the last chunk the call returns results;
\* otherwise it calls send(), where _parse(url) throws on an invalid url and
\* the request is posted on a valid one, and waits for the answer.
Loop(call, ci, urlValid) ==
  IF ci >= Len(call.chunks)
  THEN [call EXCEPT !.state = "returned", !.ci = ci]
  ELSE IF ~urlValid
  THEN [call EXCEPT !.state = "rejected", !.ci = ci, !.threw = "WEBHOOK_INVALID_URL"]
  ELSE [call EXCEPT !.state = "awaiting", !.ci = ci,
                    !.posted = Append(@, _normalise(ChunkPayload(call, ci)))]

\* sendBatch(url, payload), payload.embeds being embeds (undefined counts as
\* empty): the chunks are cut and the loop starts.
sendBatch(urlValid, embeds, content) ==
  /\ batch.state = "idle"
  /\ batch' = Loop([NoBatch EXCEPT !.embeds = embeds, !.content = content,
                                   !.chunks = ChunksFrom(embeds, 0)], 0, urlValid)

\* The request of send() is answered: the message is pushed to results and
\* the loop goes on with the next chunk.
sendFulfils ==
  /\ batch.state = "awaiting"
  /\ batch' = Loop([batch EXCEPT !.results = @ + 1], batch.ci + 1, TRUE)

\* The request of send() fails: send() rejects and so does sendBatch.
sendRejects ==
  /\ batch.state = "awaiting"
  /\ batch' = [batch EXCEPT !.state = "rejected", !.threw = "DiscordAPIError"]

WebhookInit == batch = NoBatch

-----------------------------------------------------------------------------
(* The router specification: one router, concurrent dispatches *)

RouterPatterns ==
  {StrPat(<<"a", "*">>), StrPat(<<"a", "1">>), RegExpPat(1), RegExpPat(2), NumberPat}

RouterInteractions ==
  {Interaction(TRUE, <<"a", "1">>), Interaction(TRUE, <<"a">>),
   Interaction(TRUE, <<>>), Interaction(FALSE, <<>>)}

RouterInit ==
  /\ _routes = <<>>
  /\ _fallback = Null
  /\ inflight = EmptyBag
  /\ nextOid = 1
  /\ fired = [o \in 1..MaxRegistrations |-> [once |-> FALSE, count |-> 0]]
  /\ last = [op |-> "new", pattern |-> NumberPat, handler |-> Null,
             interaction |-> Interaction(FALSE, <<>>), threw |-> "", result |-> "none",
             invoked |-> <<>>]

Init == RouterInit /\ CooldownInit /\ PaginatorInit /\ ConfirmationInit /\ WebhookInit

\* The (pattern, handler) arguments on() and once() are called with.
RegisterArgs ==
  {<<p, "h1">> : p \in RouterPatterns}
    \cup {<<StrPat(<<"a", "*">>), NotAFunction>>, <<NumberPat, NotAFunction>>}

On ==
  /\ nextOid <= MaxRegistrations
  /\ \E a \in RegisterArgs : on(a[1], a[2])
  /\ UNCHANGED nonRouterVars

Once ==
  /\ nextOid <= MaxRegistrations
  /\ \E a \in RegisterArgs : once(a[1], a[2])
  /\ UNCHANGED nonRouterVars

Fallback ==
  /\ \E h \in {FallbackHandler, Null} : fallback(h)
  /\ UNCHANGED nonRouterVars

Off ==
  /\ \E p \in RouterPatterns : off(p)
  /\ UNCHANGED nonRouterVars

Handle ==
  /\ \E x \in RouterInteractions : handle(x)
  /\ BagCardinality(inflight') <= MaxInflight
  /\ TotalFired' <= MaxDispatches
  /\ UNCHANGED nonRouterVars

Fulfil ==
  /\ \E c \in BagToSet(inflight) : HandlerFulfils(c)
  /\ UNCHANGED nonRouterVars

Reject ==
  /\ \E c \in BagToSet(inflight), error \in {"TypeError", "RangeError"} :
       HandlerRejects(c, error)
  /\ UNCHANGED nonRouterVars

RouterNext == On \/ Once \/ Fallback \/ Off \/ Handle \/ Fulfil \/ Reject

SpecRouter == Init /\ [][RouterNext]_vars

-----------------------------------------------------------------------------
(* The matcher specification: one route, registered with any string pattern *)
(* or RegExp object, and then one customId dispatched to it.               *)

\* Strings beyond Chars: a second metacharacter, and digits for \d.
ExtraStrings == {<<"a", "+">>, <<"a", "1">>, <<"a", "1", "2">>, <<".", "a", "1">>}

MatcherPatterns ==
  {StrPat(s) : s \in StringsUpTo(MaxPatLen) \cup ExtraStrings}
    \cup {RegExpPat(id) : id \in RegExpIds}

MatcherIds == StringsUpTo(MaxIdLen) \cup ExtraStrings

OnAny ==
  /\ _routes = <<>>
  /\ nextOid = 1
  /\ \E p \in MatcherPatterns : on(p, "h1")
  /\ UNCHANGED nonRouterVars

HandleAny ==
  /\ last.op = "on"
  /\ Len(_routes) = 1
  /\ \E s \in MatcherIds : handle(Interaction(TRUE, s))
  /\ UNCHANGED nonRouterVars

MatcherNext == OnAny \/ HandleAny \/ Fulfil

SpecMatcher == Init /\ [][MatcherNext]_vars

-----------------------------------------------------------------------------
(* The cooldown specification: one manager, a clock *)

\* Bucket and entity names; ("b:e", "e") and ("b", "e:e") compose the same key.
Commands == {<<"b">>, <<"b", ":", "e">>}
EntityIds == {<<"e">>, <<"e", ":", "e">>}
Durations == (-1)..MaxDuration

Check ==
  /\ \E b \in Commands, e \in EntityIds : check(b, e)
  /\ DirectCall
  /\ UNCHANGED nonCooldownVars

Remaining ==
  /\ \E b \in Commands, e \in EntityIds : remaining(b, e)
  /\ DirectCall
  /\ UNCHANGED nonCooldownVars

Set ==
  /\ \E b \in Commands, e \in EntityIds, d \in Durations : set(b, e, d)
  /\ DirectCall
  /\ UNCHANGED nonCooldownVars

Use ==
  /\ \E b \in Commands, e \in EntityIds, d \in Durations : use(b, e, d)
  /\ DirectCall
  /\ UNCHANGED nonCooldownVars

Reset ==
  /\ \E b \in Commands, e \in EntityIds : reset(b, e)
  /\ DirectCall
  /\ UNCHANGED nonCooldownVars

ResetAll ==
  /\ \E b \in Commands : resetAll(b)
  /\ DirectCall
  /\ UNCHANGED nonCooldownVars

Sweep ==
  /\ sweep
  /\ DirectCall
  /\ UNCHANGED nonCooldownVars

Advance ==
  /\ now < MaxTime
  /\ Tick
  /\ DirectCall
  /\ UNCHANGED nonCooldownVars

TimerSweep ==
  /\ AutoSweep
  /\ UNCHANGED nonCooldownVars

Destroy ==
  /\ destroy
  /\ UNCHANGED nonCooldownVars

CooldownNext ==
  Check \/ Remaining \/ Set \/ Use \/ Reset \/ ResetAll \/ Sweep \/ Advance \/ TimerSweep \/ Destroy

SpecCooldown == Init /\ [][CooldownNext]_vars

-----------------------------------------------------------------------------
(* The scope specification: one manager, one bucket, the four scope        *)
(* wrappers called for interactions of different users, guilds and         *)
(* channels, and a clock.                                                   *)

ScopeKinds == {"user", "guild", "channel", "global"}

\* User 5 in guild 7; user 6 in a DM; user 5 in a DM: all in channel 5.
ScopeInteractions ==
  {ScopeInteraction(<<"5">>, TRUE, <<"7">>, <<"5">>),
   ScopeInteraction(<<"6">>, FALSE, <<>>, <<"5">>),
   ScopeInteraction(<<"5">>, FALSE, <<>>, <<"5">>)}

ScopeCommand == <<"b">>

ScopeUser ==
  /\ \E i \in ScopeInteractions, d \in {MaxDuration} : scope("user", ScopeCommand, i, d)
  /\ UNCHANGED nonCooldownVars

ScopeGuild ==
  /\ \E i \in ScopeInteractions, d \in {MaxDuration} : scope("guild", ScopeCommand, i, d)
  /\ UNCHANGED nonCooldownVars

ScopeChannel ==
  /\ \E i \in ScopeInteractions, d \in {MaxDuration} : scope("channel", ScopeCommand, i, d)
  /\ UNCHANGED nonCooldownVars

ScopeGlobal ==
  /\ \E i \in ScopeInteractions, d \in {MaxDuration} : scope("global", ScopeCommand, i, d)
  /\ UNCHANGED nonCooldownVars

ScopeAdvance ==
  /\ now < MaxTime
  /\ Tick
  /\ DirectCall
  /\ UNCHANGED nonCooldownVars

ScopeNext == ScopeUser \/ ScopeGuild \/ ScopeChannel \/ ScopeGlobal \/ ScopeAdvance

SpecScope == Init /\ [][ScopeNext]_vars

-----------------------------------------------------------------------------
(* The paginator specification: one Paginator, constructed with any number *)
(* of pages and any startPage, sent once, then goTo calls, clicks by two    *)
(* users, stop() and the collector's timeout in any order.                  *)

StartPages == {NoStartPage} \cup ((-1)..MaxPages)

New ==
  /\ \E n \in 0..MaxPages, s \in StartPages, showStop \in BOOLEAN, userId \in {NoUser, 5} :
       NewPaginator(n, s, showStop, userId)
  /\ UNCHANGED nonPaginatorVars

Reply ==
  /\ reply(5)
  /\ UNCHANGED nonPaginatorVars

Send ==
  /\ \E userId \in {NoUser, 5} : send(userId)
  /\ UNCHANGED nonPaginatorVars

GoTo ==
  /\ \E index \in (-1)..MaxPages : goTo(index)
  /\ UNCHANGED nonPaginatorVars

Stop ==
  /\ stop
  /\ UNCHANGED nonPaginatorVars

Elapse ==
  /\ PgTick
  /\ UNCHANGED nonPaginatorVars

TimeUp ==
  /\ Timeout
  /\ UNCHANGED nonPaginatorVars

Click ==
  /\ BagCardinality(collecting) < MaxCollecting
  /\ \E user \in PgUsers, id \in NavIds : Collect(user, id)
  /\ UNCHANGED nonPaginatorVars

Acknowledged ==
  /\ \E id \in BagToSet(collecting) : Deferred(id)
  /\ UNCHANGED nonPaginatorVars

AcknowledgeFails ==
  /\ \E id \in BagToSet(collecting) : DeferRejected(id)
  /\ UNCHANGED nonPaginatorVars

PaginatorNext ==
  \/ New \/ Reply \/ Send \/ GoTo \/ Stop \/ Elapse \/ TimeUp \/ Click
  \/ Acknowledged \/ AcknowledgeFails

SpecPaginator == Init /\ [][PaginatorNext]_vars

-----------------------------------------------------------------------------
(* The confirmation specification: up to MaxAsks calls of ask(), by either *)
(* user, with or without updateReply, with the default or a given timeout, *)
(* clicks by both users on the buttons of any running session, and time.   *)

ConfirmationNext ==
  \/ Ask \/ AskClick \/ AskAcknowledged \/ AskAcknowledgeFails \/ AskEdited
  \/ AskTimeUp \/ AskTimedOutEdited \/ AskTick

SpecConfirmation == Init /\ [][ConfirmationNext]_vars

-----------------------------------------------------------------------------
(* Claims about the router: dispatch order, fallback, once, registration   *)

\* route r's compiled RegExp matches the customId s
Matches(r, s) == RegExpExec(r.compiled, s).ok

\* The step is a handle() call of an interaction with a non-empty customId.
DispatchStep == last'.op = "handle" /\ last'.interaction.hasCustomId
                  /\ last'.interaction.customId # <<>>

\* The indices of the routes, before the step, that match the customId.
Matching == {k \in 1..Len(_routes) : Matches(_routes[k], last'.interaction.customId)}

\* C1: a dispatch that some route matches invokes exactly one handler, that of
\* the earliest registered matching route (the one whose oid is least), and
\* no other route's handler: its invocation count alone goes up, by one.
C1_FirstRegisteredWins ==
  [][DispatchStep /\ Matching # {} =>
       /\ Len(last'.invoked) = 1
       /\ last'.invoked[1].kind = "route"
       /\ \E k \in Matching :
            /\ last'.invoked[1].oid = _routes[k].oid
            /\ last'.invoked[1].handler = _routes[k].handler
            /\ \A m \in Matching : _routes[k].oid <= _routes[m].oid
       /\ \A o \in 1..MaxRegistrations :
            fired'[o].count = fired[o].count + (IF o = last'.invoked[1].oid THEN 1 ELSE 0)]_vars

\* "a*" registered before "a1": handle("a1") has run the wildcard's handler.
C1_Witness ==
  /\ last.op = "handle"
  /\ last.interaction.customId = <<"a", "1">>
  /\ Len(_routes) = 2
  /\ _routes[1].pattern = StrPat(<<"a", "*">>)
  /\ _routes[2].pattern = StrPat(<<"a", "1">>)
  /\ Len(last.invoked) = 1
  /\ last.invoked[1].oid = _routes[1].oid
  /\ fired[_routes[2].oid].count = 0

\* C2: for a non-empty customId, a route handler runs iff some route matches;
\* with no match the fallback, when set, runs exactly once and nothing else
\* does; with no match and no fallback nothing is invoked, nothing changes
\* and handle returns false.  When the awaited call fulfils, handle returns
\* true after a route handler and false after the fallback.
C2_ReturnsTrueIffMatched ==
  [][/\ DispatchStep =>
          /\ (Matching # {}) <=> (\E k \in 1..Len(last'.invoked) : last'.invoked[k].kind = "route")
          /\ Matching # {} => \A k \in 1..Len(last'.invoked) : last'.invoked[k].kind # "fallback"
          /\ Matching = {} /\ _fallback # Null =>
               /\ last'.invoked = <<Invocation("fallback", 0, _fallback, EmptyParams)>>
               /\ UNCHANGED <<_routes, _fallback, fired>>
          /\ Matching = {} /\ _fallback = Null =>
               /\ last'.invoked = <<>>
               /\ last'.result = "false"
               /\ UNCHANGED <<_routes, _fallback, inflight, fired, nextOid>>
     /\ last'.op = "settle" /\ last'.result # "rejected" =>
          /\ Len(last'.invoked) = 1
          /\ last'.result = "true" <=> last'.invoked[1].kind = "route"
          /\ last'.result = "false" <=> last'.invoked[1].kind = "fallback"]_vars

\* A handle() call that ran the fallback has returned false, with routes
\* registered that do not match.
C2_Witness ==
  /\ last.op = "settle"
  /\ last.result = "false"
  /\ last.invoked[1].kind = "fallback"
  /\ Len(_routes) >= 1
  /\ \A k \in 1..Len(_routes) : ~Matches(_routes[k], last.interaction.customId)

\* C3: handle() of an interaction whose customId is missing or empty returns
\* false, invokes nothing and changes neither the routes nor the fallback.
C3_NoCustomIdIgnored ==
  [][last'.op = "handle"
       /\ (~last'.interaction.hasCustomId \/ last'.interaction.customId = <<>>) =>
       /\ last'.result = "false"
       /\ last'.invoked = <<>>
       /\ UNCHANGED <<_routes, _fallback, inflight, fired, nextOid>>]_vars

\* An empty customId was dispatched with a fallback set and a once-route
\* registered.
C3_Witness ==
  /\ last.op = "handle"
  /\ last.interaction = Interaction(TRUE, <<>>)
  /\ last.result = "false"
  /\ _fallback # Null
  /\ \E k \in 1..Len(_routes) : _routes[k].once

\* C7: the handler of a route registered with once() is invoked at most one
\* time, and a once-route whose handler has been invoked is no longer in the
\* route list, whatever handle() calls are still suspended.
C7_OnceAtMostOnce ==
  /\ \A o \in 1..MaxRegistrations : fired[o].once => fired[o].count <= 1
  /\ \A k \in 1..Len(_routes) : _routes[k].once => fired[_routes[k].oid].count = 0

\* The handle() call that ran a once-route's handler is still suspended, and
\* a second dispatch of the same customId has been served by another route or
\* by the fallback.
C7_Witness ==
  /\ last.op = "handle"
  /\ Len(last.invoked) = 1
  /\ \E c \in BagToSet(inflight) :
       /\ c.interaction = last.interaction
       /\ c.invoked.kind = "route"
       /\ fired[c.invoked.oid].once
       /\ fired[c.invoked.oid].count = 1
       /\ c.invoked # last.invoked[1]

\* C8: on()/once() with a pattern that is neither a string nor a RegExp, or
\* with a handler that is not a function, throws ROUTER_INVALID_PATTERN and
\* leaves the route list and the fallback as they were.
C8_InvalidRegistrationThrows ==
  [][last'.op \in {"on", "once"}
       /\ (last'.pattern.type \notin {"string", "regexp"}
             \/ last'.handler \notin RouteHandlers \cup {FallbackHandler}) =>
       /\ last'.threw = "ROUTER_INVALID_PATTERN"
       /\ UNCHANGED <<_routes, _fallback>>]_vars

\* once() has thrown for a number pattern on a router with a route and a
\* fallback.
C8_Witness ==
  /\ last.op = "once"
  /\ last.pattern = NumberPat
  /\ last.handler = "h1"
  /\ last.threw = "ROUTER_INVALID_PATTERN"
  /\ Len(_routes) >= 1
  /\ _fallback # Null

\* The indices of the routes, before the step, whose supplied pattern is not
\* the argument of off(): the same string value or the same RegExp object.
Kept == {k \in 1..Len(_routes) : _routes[k].pattern # last'.pattern}

\* C9: off(pattern) leaves exactly the routes whose supplied pattern is not
\* strictly equal to the argument, each as it was (handler, once flag,
\* compiled RegExp) and in the same relative order, and leaves the fallback.
C9_OffRemovesExactlyEqualPatterns ==
  [][last'.op = "off" =>
       /\ Len(_routes') = Cardinality(Kept)
       /\ \A j \in 1..Len(_routes') :
            \E k \in Kept : /\ Cardinality({m \in Kept : m <= k}) = j
                            /\ _routes'[j] = _routes[k]
       /\ UNCHANGED <<_fallback, inflight, fired, nextOid>>]_vars

\* off() of one RegExp object has removed its route and kept the route of
\* another RegExp object with the same source.
C9_Witness ==
  /\ last.op = "off"
  /\ last.pattern = RegExpPat(1)
  /\ nextOid = 3
  /\ TotalFired = 0
  /\ Len(_routes) = 1
  /\ _routes[1].pattern = RegExpPat(2)
  /\ _routes[1].oid = 2

-----------------------------------------------------------------------------
(* Claims about pattern matching, checked on the matcher specification     *)

\* The route of the matcher specification was registered with a string
\* pattern without '*' / with at least one '*' / with a RegExp object.
ExactRoute(r) == r.pattern.type = "string" /\ \A i \in 1..Len(r.pattern.str) : r.pattern.str[i] # "*"
GlobRoute(r) == r.pattern.type = "string" /\ \E i \in 1..Len(r.pattern.str) : r.pattern.str[i] = "*"

\* The last call was handle() of a non-empty customId.
Dispatched == last.op = "handle" /\ last.interaction.hasCustomId
                /\ last.interaction.customId # <<>>

\* That call invoked the handler of route r.
Selected(r) == \E k \in 1..Len(last.invoked) :
                 last.invoked[k].kind = "route" /\ last.invoked[k].oid = r.oid

\* C4: the RegExp on() has just compiled for an exact string pattern p
\* matches a string s iff s = p, whatever metacharacters p holds, and a
\* dispatched non-empty customId s selects the route iff s = p.
C4_ExactPatternMatchesOnlyItself ==
  \A k \in 1..Len(_routes) :
    ExactRoute(_routes[k]) =>
      /\ last.op = "on" =>
           \A s \in MatcherIds : Matches(_routes[k], s) <=> (s = _routes[k].pattern.str)
      /\ Dispatched => (Selected(_routes[k]) <=> last.interaction.customId = _routes[k].pattern.str)

\* The route "a." was selected by the customId "a.".
C4_Witness ==
  /\ Dispatched
  /\ Len(_routes) = 1
  /\ _routes[1].pattern = StrPat(<<"a", ".">>)
  /\ last.interaction.customId = <<"a", ".">>
  /\ Selected(_routes[1])

RECURSIVE GlobAccepts(_, _, _)
\* s is the glob p with every '*' replaced by one or more characters, none
\* of them in the set `excluded`.
GlobAccepts(p, s, excluded) ==
  IF p = <<>> THEN s = <<>>
  ELSE IF Head(p) = "*"
  THEN \E n \in 1..Len(s) :
         /\ \A j \in 1..n : s[j] \notin excluded
         /\ GlobAccepts(Tail(p), SubSeq(s, n + 1, Len(s)), excluded)
  ELSE s # <<>> /\ Head(s) = Head(p) /\ GlobAccepts(Tail(p), Tail(s), excluded)

\* The position of the first '*' of a glob.
FirstStar(p) == CHOOSE i \in 1..Len(p) : p[i] = "*" /\ \A j \in 1..(i - 1) : p[j] # "*"

\* The longest text the first '*' of p can stand for in s.
FirstWildcard(p, s, excluded) ==
  LET i == FirstStar(p)
      fits(n) == /\ \A j \in i..(i + n - 1) : s[j] \notin excluded
                 /\ GlobAccepts(SubSeq(p, i + 1, Len(p)), SubSeq(s, i + n, Len(s)), excluded)
      n == CHOOSE n \in 1..Len(s) : fits(n) /\ \A m \in (n + 1)..(Len(s) - i + 1) : ~fits(m)
  IN SubSeq(s, i, i + n - 1)

GlobClaim(excluded) ==
  \A k \in 1..Len(_routes) :
    GlobRoute(_routes[k]) /\ Dispatched =>
      LET p == _routes[k].pattern.str
          s == last.interaction.customId
      IN /\ Selected(_routes[k]) <=> GlobAccepts(p, s, excluded)
         /\ Selected(_routes[k]) =>
              last.invoked[1].params = [n \in {"wildcard"} |-> FirstWildcard(p, s, excluded)]

\* C5 (as amended): a glob route is selected by s iff s is the pattern with
\* every '*' standing for one or more characters other than line
\* terminators, the whole of s being matched; params is then {wildcard: X}
\* with X the text of the first '*' (the longest possible one).
C5_WildcardNeedsOneNonTerminator == GlobClaim(LineTerminators)

\* C5 as stated: every '*' stands for one or more characters of any kind.
C5_WildcardNeedsOneCharacter == GlobClaim({})

\* The route "a*a" was selected by "a.a", with wildcard ".".
C5_Witness ==
  /\ Dispatched
  /\ Len(_routes) = 1
  /\ _routes[1].pattern = StrPat(<<"a", "*", "a">>)
  /\ last.interaction.customId = <<"a", ".", "a">>
  /\ Selected(_routes[1])
  /\ last.invoked[1].params["wildcard"] = <<".">>

\* C6: the params a RegExp route's handler receives have the names of the
\* RegExp's named groups as their keys, and no other key, each mapped to the
\* text its group captured.
C6_ParamsAreTheNamedGroups ==
  \A k \in 1..Len(_routes) :
    _routes[k].pattern.type = "regexp" /\ Dispatched /\ Selected(_routes[k]) =>
      LET m == RegExpExec(_routes[k].compiled, last.interaction.customId)
          named == {i \in 1..Len(m.names) : m.names[i] # ""}
      IN /\ DOMAIN last.invoked[1].params = {m.names[i] : i \in named}
         /\ \A i \in named : last.invoked[1].params[m.names[i]] = m.caps[i]

-----------------------------------------------------------------------------
(* Claims about the CooldownManager *)

\* C10: use(b, e, d) with d > 0 succeeds iff the store holds no entry for
\* (b, e) with expiry > now; it then sets that entry's expiry to now + d and
\* touches no other entry; otherwise it throws COOLDOWN_ACTIVE and leaves
\* the store as it was.  "now" is the clock when the call completes (now').
\* After a success the entry ends after now', so a use of the same key
\* before the clock moves is blocked; once the clock has reached the expiry
\* the entry no longer blocks.
C10_UseChecksThenSets ==
  [][lastCd'.op = "use" /\ lastCd'.durationMs > 0 =>
       LET k == KeyPrefix \o lastCd'.command \o <<":">> \o lastCd'.entityId
           blocked == k \in DOMAIN _store /\ _store[k] > now'
       IN /\ lastCd'.threw = "" <=> ~blocked
          /\ ~blocked =>
               /\ DOMAIN _store' = DOMAIN _store \cup {k}
               /\ _store'[k] = now' + lastCd'.durationMs
               /\ \A j \in DOMAIN _store \ {k} : _store'[j] = _store[j]
          /\ blocked => lastCd'.threw = "COOLDOWN_ACTIVE" /\ UNCHANGED <<_store, now>>]_vars

\* use() has been refused, after the clock has moved, on a key whose entry
\* still ends later than the clock reads.
C10_Witness ==
  /\ lastCd.op = "use"
  /\ lastCd.threw = "COOLDOWN_ACTIVE"
  /\ lastCd.durationMs > 0
  /\ now >= 1
  /\ _get(_key(lastCd.command, lastCd.entityId)) > now

\* C11: set and use with a duration <= 0 throw COOLDOWN_INVALID_DURATION and
\* leave the store as it was, for use whether or not the key is on cooldown.
C11_NonPositiveDurationThrows ==
  [][lastCd'.op \in {"set", "use"} /\ lastCd'.durationMs <= 0 =>
       /\ lastCd'.threw = "COOLDOWN_INVALID_DURATION"
       /\ UNCHANGED _store]_vars

\* C12: check(b, e) and remaining(b, e) leave the store as it was, an
\* expired entry included; check reports onCooldown iff the store holds an
\* entry for (b, e) with expiry > now, and both report remaining =
\* expiry - now for such an entry and 0 otherwise.
C12_CheckIsAPureRead ==
  [][lastCd'.op \in {"check", "remaining"} =>
       LET k == KeyPrefix \o lastCd'.command \o <<":">> \o lastCd'.entityId
           live == k \in DOMAIN _store /\ _store[k] > now
           left == IF live THEN _store[k] - now ELSE 0
       IN /\ UNCHANGED <<_store, now>>
          /\ lastCd'.op = "check" =>
               /\ lastCd'.returned.onCooldown <=> live
               /\ lastCd'.returned.remaining = left
          /\ lastCd'.op = "remaining" => lastCd'.number = left]_vars

\* check() has reported "not on cooldown" with remaining 0 for a key whose
\* expired entry is still in the store.
C12_Witness ==
  /\ lastCd.op = "check"
  /\ _key(lastCd.command, lastCd.entityId) \in DOMAIN _store
  /\ _store[_key(lastCd.command, lastCd.entityId)] < now
  /\ ~lastCd.returned.onCooldown
  /\ lastCd.returned.remaining = 0

\* C13: set(b, e, d) with d > 0 does not throw, returns now + d, makes
\* now + d the expiry of (b, e) whatever entry it had, and leaves every other
\* key's entry as it was.
C13_SetOverwrites ==
  [][lastCd'.op = "set" /\ lastCd'.durationMs > 0 =>
       LET k == KeyPrefix \o lastCd'.command \o <<":">> \o lastCd'.entityId
       IN /\ lastCd'.threw = ""
          /\ lastCd'.number = now + lastCd'.durationMs
          /\ DOMAIN _store' = DOMAIN _store \cup {k}
          /\ _store'[k] = now + lastCd'.durationMs
          /\ \A j \in DOMAIN _store \ {k} : _store'[j] = _store[j]]_vars

\* set() has replaced an entry by one that expires earlier, with another
\* key's entry in the store.
C13_Witness ==
  /\ lastCd.op = "set"
  /\ lastCd.threw = ""
  /\ lastCd.before > lastCd.number
  /\ _store[_key(lastCd.command, lastCd.entityId)] = lastCd.number
  /\ Cardinality(DOMAIN _store) >= 2

\* C14: sweep() removes exactly the entries with expiry <= now, keeps every
\* entry with expiry > now unchanged, and returns the number removed, which
\* is the difference of the store's sizes.
C14_SweepRemovesExactlyExpired ==
  [][lastCd'.op = "sweep" =>
       LET expired == {k \in DOMAIN _store : _store[k] <= now}
       IN /\ DOMAIN _store' = DOMAIN _store \ expired
          /\ \A k \in DOMAIN _store' : _store'[k] = _store[k] /\ _store[k] > now
          /\ lastCd'.number = Cardinality(expired)
          /\ Cardinality(DOMAIN _store') = Cardinality(DOMAIN _store) - lastCd'.number]_vars

\* sweep() has removed two entries and kept a live one.
C14_Witness ==
  /\ lastCd.op = "sweep"
  /\ lastCd.number = 2
  /\ Cardinality(DOMAIN _store) = 1
  /\ \A k \in DOMAIN _store : _store[k] > now

\* C15: resetAll(b) removes the entry of (b, e) for every entity e, and
\* leaves unchanged the entry of every (c, e) with c # b that is not also the
\* entry of b for some entity, whatever ':' the names hold.
C15_ResetAllRemovesOnlyTheBucket ==
  [][lastCd'.op = "resetAll" =>
       LET b == lastCd'.command
           key(c, e) == KeyPrefix \o c \o <<":">> \o e
           ofBucket == {key(b, e) : e \in EntityIds}
       IN /\ \A k \in ofBucket : k \notin DOMAIN _store'
          /\ \A c \in Commands \ {b} : \A e \in EntityIds :
               key(c, e) \in DOMAIN _store \ ofBucket =>
                 /\ key(c, e) \in DOMAIN _store'
                 /\ _store'[key(c, e)] = _store[key(c, e)]]_vars

-----------------------------------------------------------------------------
(* Claims about the scope wrappers, checked on the scope specification      *)

\* Scope k1 for interaction i and scope k2 for interaction j mean the same
\* subject: the same user, the same guild (or both no guild), the same
\* channel, or both global.
SameSubject(k1, i, k2, j) ==
  /\ k1 = k2
  /\ CASE k1 = "user" -> i.userId = j.userId
       [] k1 = "guild" -> IF i.inGuild THEN j.inGuild /\ i.guildId = j.guildId
                          ELSE ~j.inGuild
       [] k1 = "channel" -> i.channelId = j.channelId
       [] OTHER -> TRUE

\* In store s at time t the bucket is on cooldown for scope k of interaction j.
ScopeLive(s, t, k, j) ==
  LET key == KeyPrefix \o ScopeCommand \o <<":">> \o ScopeEntity(k, j)
  IN key \in DOMAIN s /\ s[key] > t

\* C16: a scope call succeeds iff the bucket is not on cooldown for its own
\* subject, whatever other users, guilds, channels and scopes are on
\* cooldown; after it succeeds the bucket is on cooldown for exactly the
\* scope/interaction pairs that mean the same subject, in addition to those
\* it was on cooldown for before.
C16_ScopesAreKeyedApart ==
  [][lastVia'.kind \in ScopeKinds =>
       LET k == lastVia'.kind
           i == lastVia'.interaction
       IN /\ lastCd'.threw = "" <=> ~ScopeLive(_store, now', k, i)
          /\ lastCd'.threw = "" =>
               \A k2 \in ScopeKinds, j \in ScopeInteractions :
                 ScopeLive(_store', now', k2, j)
                   <=> (SameSubject(k, i, k2, j) \/ ScopeLive(_store, now', k2, j))]_vars

\* scope.guild has just succeeded for a DM interaction while the bucket was
\* on cooldown for both users, guild 7, the channel and globally; it is now
\* on cooldown for the other DM interaction's guild scope too.
C16_Witness ==
  /\ lastVia.kind = "guild"
  /\ ~lastVia.interaction.inGuild
  /\ lastCd.threw = ""
  /\ \A k \in ScopeKinds, j \in ScopeInteractions : ScopeLive(_store, now, k, j)
  /\ Cardinality(DOMAIN _store) = 6

-----------------------------------------------------------------------------
(* Claims about destroy(), checked on the cooldown specification            *)

\* C17: destroy() leaves the store empty and the timer cleared; once the
\* timer is cleared it stays cleared and its callback never runs; and the
\* empty store stays empty, so that check() and remaining() report no key
\* on cooldown, until a set() or use() call.
C17_DestroyStopsTheTimer ==
  [][/\ lastCd'.op = "destroy" => DOMAIN _store' = {} /\ _sweepInterval' = "cleared"
     /\ _sweepInterval = "cleared" => _sweepInterval' = "cleared" /\ lastVia'.kind # "timer"
     /\ DOMAIN _store = {} /\ lastCd'.op \notin {"set", "use"} => DOMAIN _store' = {}
     /\ DOMAIN _store = {} /\ lastCd'.op \in {"check", "remaining"} =>
          ~lastCd'.returned.onCooldown /\ lastCd'.number = 0]_vars

\* After destroy() the clock has moved on and check() has reported a key as
\* not on cooldown, the store being empty and the timer cleared.
C17_Witness ==
  /\ lastCd.op = "check"
  /\ _sweepInterval = "cleared"
  /\ DOMAIN _store = {}
  /\ ~lastCd.returned.onCooldown
  /\ now >= 1

-----------------------------------------------------------------------------
(* Claims about the paginator *)

\* C18: whatever the options of construction (any startPage), and after any
\* goTo calls and navigation clicks, the cursor of a Paginator is an integer
\* of [0, total-1]; and construction with zero pages fails with
\* PAGINATOR_NO_PAGES.  The constructor takes options.startPage as it
\* comes, so this does not hold.
C18_CursorInRange ==
  /\ _pages > 0 => _current \in 0..(_pages - 1)
  /\ lastPg.op = "new" /\ lastPg.pages = 0 => lastPg.threw = "PAGINATOR_NO_PAGES"

\* C19: a click the collector accepted and whose handler ran changes the
\* cursor exactly so: first -> 0, prev -> max(0, cursor-1),
\* next -> min(total-1, cursor+1), last -> total-1, and stop leaves the
\* cursor and ends the collector; so prev at 0 and next at total-1 leave
\* the cursor where it is.
C19_ClickMovesTheCursor ==
  [][lastPg'.op = "collect" /\ lastPg'.threw = "" =>
       /\ lastPg'.customId = "first" => _current' = 0
       /\ lastPg'.customId = "prev" =>
            _current' = IF _current - 1 >= 0 THEN _current - 1 ELSE 0
       /\ lastPg'.customId = "next" =>
            _current' = IF _current + 1 <= _pages - 1 THEN _current + 1 ELSE _pages - 1
       /\ lastPg'.customId = "last" => _current' = _pages - 1
       /\ lastPg'.customId = "stop" => _current' = _current /\ _collector' = "ended"
       /\ lastPg'.customId = "prev" /\ _current = 0 => _current' = 0
       /\ lastPg'.customId = "next" /\ _current = _pages - 1 => _current' = _pages - 1]_vars

\* A next click was handled with the cursor on the last of several pages,
\* and the cursor is still there.
C19_Witness ==
  /\ lastPg.op = "collect"
  /\ lastPg.threw = ""
  /\ lastPg.customId = "next"
  /\ _pages >= 2
  /\ lastPg.before = _pages - 1
  /\ _current = _pages - 1

\* C20: goTo(index) with index < 0 or index >= N fails with
\* PAGINATOR_INVALID_PAGE and leaves the cursor and the message as they
\* were; goTo(N-1) on a paginator whose message was sent sets the cursor to
\* N-1, and a next click handled right after it leaves the cursor at N-1.
C20_GoToChecksTheIndex ==
  [][/\ lastPg'.op = "goTo" /\ (lastPg'.index < 0 \/ lastPg'.index >= _pages) =>
          /\ lastPg'.threw = "PAGINATOR_INVALID_PAGE"
          /\ _current' = _current
          /\ _message' = _message
     /\ lastPg'.op = "goTo" /\ lastPg'.index = _pages - 1 /\ _message.sent =>
          /\ lastPg'.threw = ""
          /\ _current' = _pages - 1
          /\ _message'.page = _pages - 1
     /\ /\ lastPg.op = "goTo" /\ lastPg.index = _pages - 1 /\ lastPg.threw = ""
        /\ lastPg'.op = "collect" /\ lastPg'.customId = "next" /\ lastPg'.threw = ""
        => _current' = _pages - 1]_vars

\* goTo(N-1) moved the cursor of a sent paginator of several pages to the
\* last page, and the next click handled right after it left it there.
C20_Witness ==
  /\ lastPg.op = "collect"
  /\ lastPg.customId = "next"
  /\ lastPg.threw = ""
  /\ lastPg.after = [op |-> "goTo", index |-> _pages - 1, threw |-> ""]
  /\ _pages >= 2
  /\ _message.sent
  /\ _current = _pages - 1

\* C21: in every payload shown while the collector is active, first and
\* prev are disabled iff the page shown is page 0 or there is one page only,
\* next and last are disabled iff it is the last page or there is one page
\* only, and the stop button is in the row iff showStop and is enabled; so
\* with one page every button but stop is disabled.
C21_ControlsFollowTheCursor ==
  _collector = "active" =>
    /\ DOMAIN _message.row = IF _showStop THEN NavIds ELSE NavIds \ {"stop"}
    /\ \A id \in {"first", "prev"} : _message.row[id] <=> (_message.page = 0 \/ _pages = 1)
    /\ \A id \in {"next", "last"} :
         _message.row[id] <=> (_message.page = _pages - 1 \/ _pages = 1)
    /\ _showStop => ~_message.row["stop"]
    /\ _pages = 1 => \A id \in NavIds \ {"stop"} : _message.row[id]

\* A click moved an active paginator of several pages to its last page:
\* next and last are disabled, first and prev are not, stop is enabled.
C21_Witness ==
  /\ _collector = "active"
  /\ lastPg.op = "collect"
  /\ lastPg.threw = ""
  /\ _pages >= 2
  /\ _message.page = _pages - 1
  /\ _message.row["next"] /\ _message.row["last"]
  /\ ~_message.row["first"] /\ ~_message.row["prev"]
  /\ _showStop /\ ~_message.row["stop"]

\* C22: a navigation click by a user other than the one the paginator is
\* restricted to sends that user the private notice and changes nothing
\* else: not the cursor, not the message, not the collector or the time it
\* has left, and no handler is started for it.
C22_OtherUsersClickChangesNothing ==
  [][lastPg'.op = "click" /\ _userId # NoUser /\ lastPg'.user # _userId =>
       /\ lastPg'.notice
       /\ UNCHANGED <<_pages, _current, _message, _collector, collecting, _showStop,
                      _userId, timeLeft, endReason, disableEdits>>]_vars

\* User 6 clicked on the paginator of user 5 after some of the collector's
\* time had passed and while a click of user 5 was being handled.
C22_Witness ==
  /\ lastPg.op = "click"
  /\ lastPg.notice
  /\ lastPg.user = 6
  /\ _userId = 5
  /\ _collector = "active"
  /\ timeLeft < MaxLifetime
  /\ collecting # EmptyBag

\* C23: once the collector has ended (timeout, stop() or the stop button)
\* nothing changes the cursor or the message any more and no collector
\* becomes active again.  goTo and the handlers of clicks accepted before
\* the end do not look at the collector, so this does not hold.
C23_StoppedIsTerminal ==
  [][_collector = "ended" =>
       /\ _current' = _current
       /\ _message' = _message
       /\ _collector' = "ended"]_vars

\* C24: when the handler of a click accepted before the end runs on after
\* the collector has ended and _disable() has disabled every control, the
\* message still shows every control disabled.  The handler calls _update()
\* whatever the state of the collector, so this does not hold.
C24_DisabledRowIsTheLastUpdate ==
  [][/\ lastPg'.op = "collect" /\ _collector = "ended"
     /\ \A id \in DOMAIN _message.row : _message.row[id]
     => \A id \in DOMAIN _message'.row : _message'.row[id]]_vars

\* C25: the collector ends once, by the first of timeout, stop() and the
\* stop button, with that path's reason; the later ones change nothing, and
\* _disable() edits the message exactly once; stop() before reply or send
\* changes nothing.
C25_OneTerminationPath ==
  [][/\ _collector = "ended" =>
          /\ _collector' = "ended"
          /\ endReason' = endReason
          /\ disableEdits' = disableEdits
     /\ _collector' = "ended" => disableEdits' = 1
     /\ _collector' # "ended" => disableEdits' = 0 /\ endReason' = ""
     /\ _collector = "active" /\ _collector' = "ended" =>
          /\ lastPg'.op \in {"timeout", "stop", "collect"}
          /\ lastPg'.op = "timeout" => endReason' = "time"
          /\ lastPg'.op = "stop" => endReason' = "manual"
          /\ lastPg'.op = "collect" => endReason' = "user" /\ lastPg'.customId = "stop"
          /\ lastPg'.edit = "applied" =>
               \A id \in DOMAIN _message'.row : _message'.row[id]
          /\ lastPg'.edit = "failed" => _message' = _message
     /\ lastPg'.op = "stop" /\ ~_message.sent =>
          UNCHANGED <<_pages, _current, _message, _collector, collecting, timeLeft,
                      endReason, disableEdits>>]_vars

\* The collector ended by timeout, and a click on the stop button accepted
\* before that was handled afterwards: still one end, one _disable() edit.
C25_Witness ==
  /\ _collector = "ended"
  /\ endReason = "time"
  /\ lastPg.op = "collect"
  /\ lastPg.customId = "stop"
  /\ lastPg.threw = ""
  /\ disableEdits = 1

-----------------------------------------------------------------------------
(* Claims about ConfirmationManager.ask *)

C27_OneOutcomePath ==
  \A s \in 1..MaxAsks :
    /\ asks[s].settles <= 1
    /\ asks[s].edits <= 1
    /\ asks[s].clicked # "" => asks[s].endReason = "limit" /\ asks[s].end = "done"
    /\ asks[s].endReason = "time" => asks[s].collect = "none"
    /\ asks[s].promise = "CONFIRMATION_TIMED_OUT" => asks[s].clicked = ""

\* The owner confirmed, the configured time ran out while the handler was
\* suspended, and the promise was settled once, with true, after one edit.
C27_Witness ==
  /\ asks[1].clicked = "yes"
  /\ asks[1].timeLeft = 0
  /\ asks[1].collect = "done"
  /\ asks[1].promise = "true"
  /\ asks[1].settles = 1
  /\ asks[1].edits = 1
  /\ lastAsk.op = "edited"

\* C28: a click on a confirmation button by somebody who is not the owner
\* sends that user the notice and changes nothing of the session: promise,
\* message, time left and the collector's one slot are as they were.
C28_StrangersClickChangesNothing ==
  [][lastAsk'.op = "click" /\ lastAsk'.user # asks[lastAsk'.s].owner =>
       /\ lastAsk'.notice
       /\ asks' = asks]_vars

\* Somebody else clicked confirm on a running session after part of its
\* time had passed: the session still runs and nothing was collected.
C28_Witness ==
  /\ lastAsk.op = "click"
  /\ lastAsk.notice
  /\ lastAsk.button = "yes"
  /\ lastAsk.user # asks[1].owner
  /\ asks[1].collector = "active"
  /\ asks[1].timeLeft = DefaultTimeout - TickMs
  /\ asks[1].clicked = ""
  /\ asks[1].promise = "pending"

\* C29: without a timeout option the collector runs for 30 s; when the time
\* is up without an accepted click the session rejects with
\* CONFIRMATION_TIMED_OUT, at once if updateReply is false, else after the
\* edit of the message to the timed-out text without components; a session
\* that timed out never resolves, and only a session without an accepted
\* click rejects.
C29_TimesOutWithoutAClick ==
  [][\A s \in 1..MaxAsks :
       /\ lastAsk'.op = "ask" /\ lastAsk'.s = s /\ lastAsk'.timeout = NoTimeout =>
            asks'[s].timeLeft = 30000
       /\ lastAsk'.op = "timeUp" /\ lastAsk'.s = s =>
            /\ asks[s].timeLeft = 0 /\ asks[s].clicked = ""
            /\ asks'[s].endReason = "time"
            /\ IF asks[s].updateReply
               THEN asks'[s].promise = "pending" /\ asks'[s].end = "editing"
               ELSE /\ asks'[s].promise = "CONFIRMATION_TIMED_OUT"
                    /\ asks'[s].edits = 0
                    /\ ~SharesMessage(s)' => asks'[s].content = "prompt"
       /\ lastAsk'.op = "timedOutEdited" /\ lastAsk'.s = s =>
            /\ asks'[s].promise = "CONFIRMATION_TIMED_OUT"
            /\ \/ asks'[s].content = "timedOutText" /\ ~asks'[s].components
               \/ asks'[s].content = asks[s].content /\ asks'[s].components = asks[s].components
       /\ asks'[s].endReason = "time" => asks'[s].promise \notin {"true", "false"}
       /\ asks'[s].promise = "CONFIRMATION_TIMED_OUT" =>
            asks'[s].clicked = "" /\ asks'[s].endReason = "time"]_vars

\* A session with updateReply timed out: the message shows the timed-out
\* text without buttons and the promise is rejected.
C29_Witness ==
  /\ lastAsk.op = "timedOutEdited"
  /\ asks[1].updateReply
  /\ asks[1].endReason = "time"
  /\ asks[1].content = "timedOutText"
  /\ ~asks[1].components
  /\ asks[1].promise = "CONFIRMATION_TIMED_OUT"

\* C30: with updateReply the edit of the message to its terminal text has
\* completed, applied or not, when the promise settles, on the click path
\* and on the timeout path, and no edit follows; without updateReply the
\* session never edits the message, which then keeps its text unless another
\* session was rendered on it.
C30_EditCompletesBeforeSettling ==
  [][\A s \in 1..MaxAsks :
       /\ asks[s].promise = "pending" /\ asks'[s].promise # "pending" /\ asks[s].updateReply =>
            asks'[s].edits = 1
       /\ asks[s].promise # "pending" =>
            /\ asks'[s].edits = asks[s].edits
            /\ ~SharesMessage(s)' => asks'[s].content = asks[s].content
       /\ ~asks'[s].updateReply =>
            /\ asks'[s].edits = 0
            /\ ~SharesMessage(s)' => asks'[s].content \in {"none", "prompt"}]_vars

\* With updateReply the owner confirmed, the edit failed and was swallowed,
\* and the promise resolved after it.
C30_Witness ==
  /\ asks[1].updateReply
  /\ asks[1].promise = "true"
  /\ asks[1].edits = 1
  /\ asks[1].content = "prompt"
  /\ asks[1].components

-----------------------------------------------------------------------------
(* A claim about rejecting handlers, checked on the router specification *)

\* C35: when the handler of a matched route throws or rejects, handle()
\* rejects with that same error, no other handler (the fallback) is invoked
\* and the route list is left alone; a once-route that matched was removed
\* before its handler was called, so no later dispatch invokes it again.
C35_RejectionPropagates ==
  [][/\ last'.op = "settle" /\ last'.raised # "" =>
          /\ last'.result = "rejected"
          /\ last'.threw = last'.raised
          /\ _routes' = _routes /\ _fallback' = _fallback /\ fired' = fired
          /\ BagCardinality(inflight') = BagCardinality(inflight) - 1
          /\ last'.invoked[1].kind = "route" /\ fired[last'.invoked[1].oid].once =>
               /\ \A k \in 1..Len(_routes') : _routes'[k].oid # last'.invoked[1].oid
               /\ fired'[last'.invoked[1].oid].count = 1
     /\ last'.op = "handle" /\ last'.invoked # <<>> /\ last'.invoked[1].kind = "route"
          /\ fired[last'.invoked[1].oid].once => fired[last'.invoked[1].oid].count = 0]_vars

\* The handler of a once-route rejected while a fallback was set, and the
\* once-route is no longer in the list.
C35_Witness ==
  /\ last.op = "settle"
  /\ last.raised = "RangeError"
  /\ last.threw = "RangeError"
  /\ last.invoked[1].kind = "route"
  /\ fired[last.invoked[1].oid].once
  /\ _fallback # Null
  /\ \A k \in 1..Len(_routes) : _routes[k].oid # last.invoked[1].oid

(***************************************************************************)
(* Claims about sweeping and keys, checked on the cooldown specification   *)
(***************************************************************************)

\* The expiry a reader at time t finds under key in store: Absent when the
\* entry is missing or no longer live.
LiveExpiry(store, key, t) ==
  IF key \in DOMAIN store /\ store[key] > t THEN store[key] ELSE Absent

\* C38: sweep() is invisible to readers: a sweep, manual or by the timer,
\* leaves what a reader finds under every key unchanged now and at every
\* later instant, and check, remaining and use return what they would return
\* on the store swept at that instant.
C38_SweepInvisibleToReaders ==
  [][/\ lastCd'.op = "sweep" =>
          \A k \in DOMAIN _store \cup {_key(c, e) : c \in Commands, e \in EntityIds} :
            \A t \in now..MaxTime :
              LiveExpiry(_store', k, t) = LiveExpiry(_store, k, t)
     /\ lastCd'.op \in {"check", "remaining", "use"} =>
          LET expiry == LiveExpiry(_store, _key(lastCd'.command, lastCd'.entityId), now)
          IN /\ lastCd'.op = "check" =>
                  lastCd'.returned =
                    IF expiry = Absent
                    THEN [onCooldown |-> FALSE, remaining |-> 0, expiry |-> Absent]
                    ELSE [onCooldown |-> TRUE, remaining |-> expiry - now, expiry |-> expiry]
             /\ lastCd'.op = "remaining" =>
                  lastCd'.number = IF expiry = Absent THEN 0 ELSE expiry - now
             /\ lastCd'.op = "use" =>
                  /\ lastCd'.threw = "COOLDOWN_ACTIVE" <=> expiry # Absent
                  /\ expiry # Absent => lastCd'.number = expiry - now /\ _store' = _store]_vars

\* The timer's sweep has removed an expired entry that was still stored and
\* kept a live one.
C38_Witness ==
  /\ lastCd.op = "sweep"
  /\ lastVia.kind = "timer"
  /\ lastCd.number = 1
  /\ \E k \in DOMAIN _store : _store[k] > now

\* C39: distinct (bucket, entity) pairs never share an entry: set, use or
\* reset on (b1, e1) leaves what check(b2, e2) finds unchanged for every
\* pair (b2, e2) other than (b1, e1), whatever the strings are.
C39_DistinctPairsNeverShare ==
  [][lastCd'.op \in {"set", "use", "reset"} =>
       \A c \in Commands, e \in EntityIds :
         <<c, e>> # <<lastCd'.command, lastCd'.entityId>> =>
           LiveExpiry(_store', _key(c, e), now') = LiveExpiry(_store, _key(c, e), now')]_vars

-----------------------------------------------------------------------------
(* The sweeping specification: a manager built with or without autoSweep,  *)
(* the same calls as in the cooldown specification, and a timer that, while *)
(* set, keeps firing: setInterval runs its callback again and again as long *)
(* as the event loop turns, and sweep() is synchronous.                    *)

SweepingInit ==
  /\ RouterInit
  /\ \E autoSweep \in BOOLEAN : NewCooldownManager(autoSweep)
  /\ PaginatorInit
  /\ ConfirmationInit
  /\ WebhookInit

SpecSweeping == SweepingInit /\ [][CooldownNext]_vars /\ WF_vars(TimerSweep)

\* The keys the calls of the specification can store under.
StoreKeys == {_key(c, e) : c \in Commands, e \in EntityIds}

\* C40: while the timer is set, every stored entry whose expiry has passed
\* is eventually removed with no call by anyone (or replaced by a live one
\* by a caller); and when the timer is not set, an entry leaves the store
\* only by a call of sweep, reset, resetAll or destroy.
C40_ExpiredEventuallySwept ==
  /\ \A k \in StoreKeys :
       (_sweepInterval = "set" /\ k \in DOMAIN _store /\ _store[k] <= now)
         ~> (k \notin DOMAIN _store \/ _store[k] > now)
  /\ [][_sweepInterval # "set" /\ DOMAIN _store \ DOMAIN _store' # {} =>
          /\ lastCd'.op \in {"sweep", "reset", "resetAll", "destroy"}
          /\ lastVia'.kind # "timer"]_vars

\* The timer has removed the only entry, which had expired, of a manager
\* that was not destroyed.
C40_Witness ==
  /\ _sweepInterval = "set"
  /\ lastVia.kind = "timer"
  /\ lastCd.op = "sweep"
  /\ lastCd.number = 1
  /\ _store = [k \in {} |-> 0]

(***************************************************************************)
(* Claims about concurrent sessions, failing network calls and termination *)
(***************************************************************************)

\* Nothing of session s is left to run: its collector has ended and neither
\* of its handlers is suspended on a network call.
AskQuiescent(s) ==
  /\ asks[s].collector = "ended"
  /\ asks[s].collect \notin {"deferring", "editing"}
  /\ asks[s].end # "editing"

\* C34: every session whose prompt was rendered settles its promise, whatever
\* the outcome of the network calls made while handling the click: once
\* nothing of the session is left to run, its promise is no longer pending.
C34_EverySessionSettles ==
  \A s \in 1..MaxAsks : AskQuiescent(s) => asks[s].promise # "pending"

\* Session r is as it was, but for what its message shows when it is also
\* the message of session s.
AskUntouched(r, s) ==
  /\ asks'[r].promise = asks[r].promise /\ asks'[r].settles = asks[r].settles
  /\ asks'[r].collector = asks[r].collector /\ asks'[r].endReason = asks[r].endReason
  /\ asks'[r].collect = asks[r].collect /\ asks'[r].end = asks[r].end
  /\ asks'[r].clicked = asks[r].clicked /\ asks'[r].edits = asks[r].edits
  /\ asks[r].message # asks[s].message =>
       asks'[r].content = asks[r].content /\ asks'[r].components = asks[r].components

\* The events of one session: a click on one of its buttons, the steps of
\* its handlers, its timeout.
AskSessionOps ==
  {"click", "acknowledged", "acknowledgeFails", "edited", "timeUp", "timedOutEdited"}

-----------------------------------------------------------------------------
(* The terminal-edit specification: a Paginator is shown, times out or is  *)
(* stopped, by stop() or the stop button, while Discord no longer applies  *)
(* the edit of its message; after that one confirmation is asked.  The two *)
(* objects share no state, so their runs are taken one after the other.    *)

NoSession == \A s \in 1..MaxAsks : asks[s].collector = "none"

\* The Paginator has ended and the edit of _disable() was not applied.
EndedUnedited ==
  /\ _collector = "ended"
  /\ lastPg.edit = "failed"

TerminalNew == NoSession /\ New
TerminalReply == NoSession /\ Reply
TerminalStop == NoSession /\ Stop
TerminalElapse == NoSession /\ Elapse
TerminalTimeUp == NoSession /\ TimeUp
TerminalClick == NoSession /\ Click
TerminalAcknowledged == NoSession /\ Acknowledged
TerminalAsk == NoSession /\ EndedUnedited /\ Ask

TerminalNext ==
  \/ TerminalNew \/ TerminalReply \/ TerminalStop \/ TerminalElapse \/ TerminalTimeUp
  \/ TerminalClick \/ TerminalAcknowledged
  \/ TerminalAsk \/ AskClick \/ AskAcknowledged \/ AskEdited \/ AskTimeUp
  \/ AskTimedOutEdited \/ AskTick

SpecTerminalEdits == Init /\ [][TerminalNext]_vars

\* C32: a failing terminal edit is swallowed in both components: a Paginator
\* that times out or is stopped ends as it would have, with no error thrown
\* by the call and none leaving the 'end' handler, whether the edit was
\* applied or not; and a session settles with the outcome of its click, or
\* with CONFIRMATION_TIMED_OUT, whether its edit was applied or not.
C32_TerminalEditFailureSwallowed ==
  [][/\ lastPg'.op \in {"timeout", "stop", "collect"} /\ lastPg'.edit # "" =>
          /\ lastPg'.threw = "" /\ lastPg'.unhandled = ""
          /\ _collector' = "ended"
     /\ \A s \in 1..MaxAsks :
          /\ lastAsk'.op = "edited" /\ lastAsk'.s = s =>
               /\ asks'[s].promise = (IF asks[s].clicked = "yes" THEN "true" ELSE "false")
               /\ asks'[s].collect = "done"
          /\ lastAsk'.op = "timedOutEdited" /\ lastAsk'.s = s =>
               /\ asks'[s].promise = "CONFIRMATION_TIMED_OUT"
               /\ asks'[s].end = "done"]_vars

\* The Paginator timed out and the edit that disables its controls failed;
\* then a confirmation timed out and the edit to its timed-out text failed
\* too: no error anywhere, and the promise is rejected as timed out.
C32_Witness ==
  /\ lastPg.op = "timeout" /\ lastPg.edit = "failed"
  /\ lastPg.threw = "" /\ lastPg.unhandled = ""
  /\ _collector = "ended" /\ endReason = "time"
  /\ \E id \in DOMAIN _message.row : ~_message.row[id]
  /\ lastAsk.op = "timedOutEdited"
  /\ asks[1].edits = 1 /\ asks[1].content = "prompt" /\ asks[1].components
  /\ asks[1].promise = "CONFIRMATION_TIMED_OUT"

-----------------------------------------------------------------------------
(* The delivery-order specification: one Paginator, clicks on the controls *)
(* the message shows enabled, and their acknowledgements completing in any *)
(* order.  byDelivery follows the clicks as the collector accepts them.    *)

OrderNew ==
  /\ \E n \in 1..MaxPages, s \in StartPages : NewPaginator(n, s, TRUE, NoUser)
  /\ byDelivery' = _current'
  /\ UNCHANGED <<routerVars, cooldownVars, confirmationVars, webhookVars, others>>

OrderClick ==
  /\ BagCardinality(collecting) < MaxCollecting
  /\ \E user \in PgUsers, id \in NavIds :
       /\ _collector = "active"
       /\ id \in DOMAIN _message.row
       /\ ~_message.row[id]
       /\ Collect(user, id)
       /\ byDelivery' = IF Allowed(user) THEN NavStep(id, byDelivery, _pages) ELSE byDelivery
  /\ UNCHANGED <<routerVars, cooldownVars, confirmationVars, webhookVars, others>>

OrderNext ==
  OrderNew \/ Reply \/ OrderClick \/ Acknowledged \/ Elapse \/ TimeUp \/ Stop

SpecOrder == Init /\ [][OrderNext]_vars

\* C36: once the handlers of all accepted clicks have run, the cursor is
\* what the clicks' navigation steps give when applied in the order the
\* clicks were delivered in, whatever the order their acknowledgements
\* completed in.
C36_CursorFollowsDeliveryOrder ==
  collecting = EmptyBag => _current = byDelivery

-----------------------------------------------------------------------------
(* The re-send specification: one Paginator, sent, and sent again while it *)
(* is shown.  _startCollector() creates a collector and stores it in       *)
(* _collector; the collector it replaces there is not stopped and runs on   *)
(* until its own time is up, when its 'end' handler calls _disable().       *)

\* send(channel, userId) on a Paginator that was sent before: a new message,
\* a new collector in _collector, the one before left running.  The
\* collectors created before, ended (each ran _disable() once) or running,
\* are counted against MaxResends.
sendAgain(userId) ==
  /\ _pages > 0
  /\ _message.sent
  /\ disableEdits + others < MaxResends
  /\ _userId' = IF userId # NoUser THEN userId ELSE _userId
  /\ _message' = UpdatedMessage(_current)
  /\ _collector' = "active"
  /\ timeLeft' = MaxLifetime
  /\ endReason' = ""
  /\ others' = others + (IF _collector = "active" THEN 1 ELSE 0)
  /\ lastPg' = [PgCall("send") EXCEPT !.before = _current]
  /\ UNCHANGED <<_pages, _current, collecting, _showStop, disableEdits>>

\* The time of a collector left running is up: its 'end' handler calls
\* _disable(), which edits this._message, the message sent last.
otherTimeout ==
  /\ others > 0
  /\ others' = others - 1
  /\ \E ok \in BOOLEAN :
       /\ _message' = IF ok THEN DisabledMessage(_current) ELSE _message
       /\ lastPg' = [PgCall("otherTimeout") EXCEPT
                       !.before = _current,
                       !.edit = IF ok THEN "applied" ELSE "failed",
                       !.unhandled = Swallowed(Swallowed(EditError(ok)))]
  /\ disableEdits' = disableEdits + 1
  /\ UNCHANGED <<_pages, _current, _collector, collecting, _showStop, _userId, timeLeft,
                 endReason>>

SendAgain ==
  /\ \E userId \in {NoUser, 5} : sendAgain(userId)
  /\ UNCHANGED <<routerVars, cooldownVars, confirmationVars, webhookVars, byDelivery>>

OtherTimeUp ==
  /\ otherTimeout
  /\ UNCHANGED <<routerVars, cooldownVars, confirmationVars, webhookVars, byDelivery>>

ResendNext ==
  New \/ Reply \/ Send \/ SendAgain \/ Elapse \/ TimeUp \/ Stop \/ OtherTimeUp

SpecResend == Init /\ [][ResendNext]_vars

\* C37: at every moment at most one collector is active for the Paginator,
\* also when reply() or send() is called more than once on it.
C37_AtMostOneCollector ==
  (IF _collector = "active" THEN 1 ELSE 0) + others <= 1

-----------------------------------------------------------------------------
(* The webhook specification: one call of sendBatch with 0 to MaxEmbeds    *)
(* embeds, all builders or all plain JSON, with or without a content, on a *)
(* valid or an invalid url; each request is answered or fails.             *)

SendBatch ==
  /\ \E urlValid \in BOOLEAN, n \in 0..MaxEmbeds, builder \in BOOLEAN,
        content \in {Undefined, "text"} :
       sendBatch(urlValid, [i \in 1..n |-> Embed(i, builder)], content)
  /\ UNCHANGED nonWebhookVars

SendFulfils ==
  /\ sendFulfils
  /\ UNCHANGED nonWebhookVars

SendRejects ==
  /\ sendRejects
  /\ UNCHANGED nonWebhookVars

WebhookNext == SendBatch \/ SendFulfils \/ SendRejects

SpecWebhook == Init /\ [][WebhookNext]_vars

\* The embeds of a sequence of payloads, one after the other.
RECURSIVE EmbedsOf(_)
EmbedsOf(payloads) ==
  IF payloads = <<>> THEN <<>> ELSE Head(payloads).embeds \o EmbedsOf(Tail(payloads))

\* C33: a call of sendBatch with n >= 1 embeds passes them to send() in
\* chunks of at most 10, one request at a time, in order and without gaps:
\* what has been posted so far is the beginning of the embeds list, as
\* JSON; content goes with the first request only; and a call that returns
\* has made ceil(n / 10) requests whose embeds, one after the other, are the
\* whole list.
C33_SendBatchChunks ==
  LET n == Len(batch.embeds)
      posted == batch.posted
      all == EmbedsOf(posted)
  IN n >= 1 =>
       /\ \A k \in 1..Len(posted) :
            /\ Len(posted[k].embeds) \in 1..10
            /\ posted[k].content = IF k = 1 THEN batch.content ELSE Undefined
       /\ Len(all) <= n
       /\ \A i \in 1..Len(all) : all[i] = ToJSON(batch.embeds[i])
       /\ Len(posted) - batch.results \in {0, 1}
       /\ batch.state = "awaiting" => batch.results = Len(posted) - 1
       /\ batch.state = "returned" => batch.results = Len(posted)
       /\ batch.state # "returned" => 10 * Len(posted) < n + 10
       /\ batch.state = "returned" =>
            /\ 10 * (Len(posted) - 1) < n /\ n <= 10 * Len(posted)
            /\ Len(all) = n

\* A call with a content and 21 embeds built with EmbedBuilder has returned
\* after three requests, the last with one embed.
C33_Witness ==
  /\ batch.state = "returned"
  /\ Len(batch.embeds) = 21 /\ batch.embeds[1].builder
  /\ batch.content = "text"
  /\ Len(batch.posted) = 3
  /\ Len(batch.posted[3].embeds) = 1
  /\ batch.results = 3

====
